---- MODULE Spec2Model ----
(***************************************************************************)
(* Tag rebase of dolt history (package rebase, rebase_tag.go): building   *)
(* and validating a TagMapping, and replaying one commit's root on top of *)
(* its rebased parent root, followed by the branch swap of the caller.    *)
(*                                                                         *)
(* A column is [tag, name, kind, pk]; a schema is the sequence of its      *)
(* columns; a noms tuple is a sequence of <<tag, value>> pairs; a row map  *)
(* is a function from key tuples to value tuples; a root is                *)
(* [tables: name -> [sch, rows], supers: name -> set of tags].             *)
(***************************************************************************)
EXTENDS Integers, Sequences, FiniteSets, TLC

\* ------------------------------------------------------------------ bounds
\* tags are uint64 in the code; the model draws them from 0..MaxTag
MaxTag == 5
Tags == 0..MaxTag

\* ------------------------------------------------------------ small helpers
\* field values are integers; NULL is the one value below them
Null == 0 - 1
NoTag == 0 - 1
\* a nil schema.Schema (every schema of a table has a column)
NilSchema == <<>>
\* types.EmptyMap
EmptyMap == <<>>

\* an error value: what failed and the table, column or tag it names
Error(kind, table, col, tag) == [kind |-> kind, table |-> table, col |-> col, tag |-> tag]
NoErr == Error("nil", "", "", NoTag)

Range(f) == {f[x] : x \in DOMAIN f}

\* f with the key k removed (k need not be present)
MapRemove(f, k) == [x \in (DOMAIN f) \ {k} |-> f[x]]

\* f with k set to v (insert or overwrite)
MapSet(f, k, v) == [x \in (DOMAIN f) \cup {k} |-> IF x = k THEN v ELSE f[x]]

\* the names of a set, as the sequence the store returns them in
RECURSIVE SortedNames(_, _)
SortedNames(order, S) ==
    IF order = <<>> THEN <<>>
    ELSE IF Head(order) \in S THEN <<Head(order)>> \o SortedNames(Tail(order), S)
    ELSE SortedNames(Tail(order), S)

\* ------------------------------------------------------------ table names
DocTableName == "dolt_docs"
DoltQueryCatalogTableName == "dolt_query_catalog"
SchemasTableName == "dolt_schemas"

\* every table name of the model, in the store's (sorted) order
TableOrder == <<"T", "U", "dolt_docs", "dolt_query_catalog", "dolt_schemas", "dolt_x">>
TableNames == Range(TableOrder)

HasDoltPrefix(tn) ==
    tn \in {"dolt_docs", "dolt_query_catalog", "dolt_schemas", "dolt_x"}

\* ---------------------------------------------------------------- schemas
Col(tag, name, kind, pk) == [tag |-> tag, name |-> name, kind |-> kind, pk |-> pk]

GetAllCols(sch) == sch
SchTags(sch) == {sch[i].tag : i \in DOMAIN sch}
SchNames(sch) == {sch[i].name : i \in DOMAIN sch}

IsPKCol(c) == c.pk
IsNonPKCol(c) == ~c.pk
GetPKCols(sch) == SelectSeq(sch, IsPKCol)
GetNonPKCols(sch) == SelectSeq(sch, IsNonPKCol)
ColTags(cols) == [i \in DOMAIN cols |-> cols[i].tag]

GetByName(cols, name) == CHOOSE i \in DOMAIN cols : cols[i].name = name

\* ColCollection.Append fails on a second column with a tag already present
HasTagCollision(cols) ==
    \E i, j \in DOMAIN cols : i # j /\ cols[i].tag = cols[j].tag /\ cols[i] # cols[j]

\* schema.SchemasAreEqual: the same columns, looked up by tag
SchemasAreEqual(s1, s2) == Len(s1) = Len(s2) /\ Range(s1) = Range(s2)

\* ------------------------------------------------------------------ roots
EmptyRoot == [tables |-> <<>>, supers |-> <<>>]

HasTable(root, tn) == tn \in DOMAIN root.tables
GetTableNames(root) == SortedNames(TableOrder, DOMAIN root.tables)
UnionTableNames(r1, r2) ==
    SortedNames(TableOrder, (DOMAIN r1.tables) \cup (DOMAIN r2.tables))

RemoveTables(root, tn) == [root EXCEPT !.tables = MapRemove(@, tn)]
PutTable(root, tn, tbl) == [root EXCEPT !.tables = MapSet(@, tn, tbl)]
PutSuperSchema(root, tn, ss) == [root EXCEPT !.supers = MapSet(@, tn, ss)]
GetSuperSchema(root, tn) == IF tn \in DOMAIN root.supers THEN root.supers[tn] ELSE {}

\* every tag of every SuperSchema of the root, and of the working schemas
RootSuperSchemaTags(root) ==
    UNION ({root.supers[tn] : tn \in DOMAIN root.supers}
           \cup {SchTags(root.tables[tn].sch) : tn \in DOMAIN root.tables})

\* SuperSchema.RebaseTag: every tag replaced per the mapping, the others kept
RebaseTag(ss, tableMapping) ==
    {IF t \in DOMAIN tableMapping THEN tableMapping[t] ELSE t : t \in ss}

\* ------------------------------------------------------------ tagged rows
\* row.ParseTaggedValues: tag -> value, NULL fields left out
ParseTaggedValues(tpl) ==
    LET present == {i \in DOMAIN tpl : tpl[i][2] # Null}
    IN [t \in {tpl[i][1] : i \in present} |->
            tpl[CHOOSE i \in present : tpl[i][1] = t][2]]

\* TaggedValues.NomsTupleForTags: the fields of tv, in the order of tags; a tag
\* without a value is encoded as NULL when encodeNulls, and left out otherwise
NomsTupleForTags(tv, tags, encodeNulls) ==
    LET keep(t) == encodeNulls \/ t \in DOMAIN tv
        kept == SelectSeq(tags, keep)
    IN [i \in DOMAIN kept |->
            <<kept[i], IF kept[i] \in DOMAIN tv THEN tv[kept[i]] ELSE Null>>]

\* the tags of a tuple
TupleTags(tpl) == {tpl[i][1] : i \in DOMAIN tpl}

\* noms orders a map by its keys: tuples compare field by field
RECURSIVE TupleLess(_, _)
TupleLess(k1, k2) ==
    IF k1 = <<>> THEN k2 # <<>>
    ELSE IF k2 = <<>> THEN FALSE
    ELSE IF Head(k1)[1] # Head(k2)[1] THEN Head(k1)[1] < Head(k2)[1]
    ELSE IF Head(k1)[2] # Head(k2)[2] THEN Head(k1)[2] < Head(k2)[2]
    ELSE TupleLess(Tail(k1), Tail(k2))

\* the keys of a set in ascending order
RECURSIVE SortedKeys(_)
SortedKeys(S) ==
    IF S = {} THEN <<>>
    ELSE LET m == CHOOSE k \in S : \A o \in S \ {k} : TupleLess(k, o)
         IN <<m>> \o SortedKeys(S \ {m})

\* ---------------------------------------------------------------- diffing
\* one Difference of the diff of parentRows (old) against rows (new), as the
\* AsyncDiffer emits it; OldValue and NewValue hold the tuple, or nothing (nil)
Difference(parentRows, rows, k) ==
    [ChangeType |-> IF k \notin DOMAIN parentRows THEN "Added"
                    ELSE IF k \notin DOMAIN rows THEN "Removed" ELSE "Modified",
     KeyValue |-> k,
     OldValue |-> IF k \in DOMAIN parentRows THEN {parentRows[k]} ELSE {},
     NewValue |-> IF k \in DOMAIN rows THEN {rows[k]} ELSE {}]

\* the keys that differ, in ascending key order
DiffKeys(parentRows, rows) ==
    SortedKeys({k \in (DOMAIN parentRows) \cup (DOMAIN rows) :
                   \/ k \notin DOMAIN parentRows
                   \/ k \notin DOMAIN rows
                   \/ parentRows[k] # rows[k]})

Diffs(parentRows, rows) ==
    LET ks == DiffKeys(parentRows, rows)
    IN [i \in DOMAIN ks |-> Difference(parentRows, rows, ks[i])]

\* RemapOutcomes that leaves out the tags without an entry
RemapOutcomesMappedOnly(tv, tagMapping) ==
    LET mapped == (DOMAIN tv) \cap (DOMAIN tagMapping)
        newTags == {tagMapping[t] : t \in mapped}
    IN {f \in [newTags -> Range(tv)] :
            \A nt \in newTags : \E t \in mapped : tagMapping[t] = nt /\ f[nt] = tv[t]}

\* the tagged values of tv with every mapped tag replaced by its new tag and
\* every unmapped tag kept; a later field overwrites an earlier one of the same
\* new tag, in either order
RemapOutcomes(tv, tagMapping) ==
    LET newTag(t) == IF t \in DOMAIN tagMapping THEN tagMapping[t] ELSE t
        newTags == {newTag(t) : t \in DOMAIN tv}
    IN {f \in [newTags -> Range(tv)] :
            \A nt \in newTags : \E t \in DOMAIN tv : newTag(t) = nt /\ f[nt] = tv[t]}

\* modifyDifferenceTag: the key and the new value of d under the new tags
modifyDifferenceTag(d, rSch, tagMapping) ==
    {[key |-> NomsTupleForTags(newKtv, ColTags(GetPKCols(rSch)), TRUE),
      val |-> IF d.NewValue = {} THEN {}
              ELSE {NomsTupleForTags(newTv, ColTags(GetNonPKCols(rSch)), FALSE)}] :
        newKtv \in RemapOutcomes(ParseTaggedValues(d.KeyValue), tagMapping),
        newTv \in IF d.NewValue = {} THEN {<<>>}
                  ELSE UNION {RemapOutcomes(ParseTaggedValues(v), tagMapping) : v \in d.NewValue}}

\* ApplyEdit where a Removed diff leaves the row
ApplyEditKeepRemoved(editor, d, m) ==
    IF d.ChangeType = "Removed" THEN editor
    ELSE MapSet(editor, m.key, CHOOSE v \in m.val : TRUE)

\* the edit a remapped diff makes to the row editor: Added and Modified set the
\* key, Removed removes it
ApplyEdit(editor, d, m) ==
    IF d.ChangeType = "Removed" THEN MapRemove(editor, m.key)
    ELSE MapSet(editor, m.key, CHOOSE v \in m.val : TRUE)

\* the row maps the loop of replayRowDiffs can end with, applying the diffs in
\* the order the differ emits them
RECURSIVE ApplyDiffs(_, _, _, _)
ApplyDiffs(ds, editor, rSch, tagMapping) ==
    IF ds = <<>> THEN {editor}
    ELSE UNION {ApplyDiffs(Tail(ds), ApplyEdit(editor, Head(ds), m), rSch, tagMapping) :
                    m \in modifyDifferenceTag(Head(ds), rSch, tagMapping)}

\* replayRowDiffs when no poll times out: the diffs of parentRows against rows,
\* remapped, applied to rebasedParentRows
replayRowDiffs(rSch, rows, parentRows, rebasedParentRows, tagMapping) ==
    ApplyDiffs(Diffs(parentRows, rows), rebasedParentRows, rSch, tagMapping)

\* dropValsForDeletedColumns that prunes nothing
dropValsKeepAll(rows, sch, parentSch) == rows

\* dropValsForDeletedColumns: the rows of the rebased parent without the values
\* of columns that sch lacks, and without the rows keyed by a tag that is no
\* primary key tag of sch
dropValsForDeletedColumns(rows, sch, parentSch) ==
    IF parentSch = NilSchema THEN rows
    ELSE IF SchemasAreEqual(sch, parentSch) THEN rows
    ELSE LET pkTags == SchTags(GetPKCols(sch))
             nonPKTags == SchTags(GetNonPKCols(sch))
             kept == {k \in DOMAIN rows : DOMAIN ParseTaggedValues(k) \subseteq pkTags}
             prune(v) == LET vtv == ParseTaggedValues(v)
                         IN NomsTupleForTags([t \in (DOMAIN vtv) \cap nonPKTags |-> vtv[t]],
                                             ColTags(GetNonPKCols(sch)), FALSE)
         IN [k \in kept |-> prune(rows[k])]

\* ------------------------------------------------------------- validation
\* DuplicateTags with the set of seen new tags shared by all the tables
DuplicateTagsSharedSet(tagMapping, tblName) ==
    {nt \in Range(tagMapping[tblName]) :
        \/ \E o1, o2 \in DOMAIN tagMapping[tblName] :
              o1 # o2 /\ tagMapping[tblName][o1] = nt /\ tagMapping[tblName][o2] = nt
        \/ \E other \in (DOMAIN tagMapping) \ {tblName} : nt \in Range(tagMapping[other])}

\* the new tags that validateTagMapping finds a second time while it walks the
\* entries of one table (newTags is made afresh for every table)
DuplicateTags(tagMapping, tblName) ==
    {nt \in Range(tagMapping[tblName]) :
        \E o1, o2 \in DOMAIN tagMapping[tblName] :
            o1 # o2 /\ tagMapping[tblName][o1] = nt /\ tagMapping[tblName][o2] = nt}

\* validateTagMapping that finds nothing
validateTagMappingNoCheck(tagMapping) == {NoErr}

\* validateTagMapping: the errors it can return; Go walks both maps in an
\* unspecified order, so any duplicate of any table can be the first one found
validateTagMapping(tagMapping) ==
    LET found == UNION {{Error("duplicate tag", tn, "", nt) :
                            nt \in DuplicateTags(tagMapping, tn)} : tn \in DOMAIN tagMapping}
    IN IF found = {} THEN {NoErr} ELSE found

\* tagExistsInHistory that never looks at the history
tagExistsInHistoryAlways(crt, tagMapping) == TRUE

\* tagExistsInHistory: some old tag of the mapping is in the SuperSchema of
\* its table in the commit's root
tagExistsInHistory(crt, tagMapping) ==
    \E tn \in DOMAIN crt.tables :
        /\ tn \in DOMAIN tagMapping
        /\ \E oldTag \in DOMAIN tagMapping[tn] : oldTag \in GetSuperSchema(crt, tn)

\* ------------------------------------------------------ building a mapping
\* the static column name -> tag table of handleSystemTableMappings (the tag
\* values stand for the reserved tags of package doltdb); nil for a table that
\* is none of the three
newTagsByColName(tblName) ==
    IF tblName = DocTableName
        THEN [n \in {"doc_name", "doc_text"} |-> IF n = "doc_name" THEN 101 ELSE 102]
    ELSE IF tblName = DoltQueryCatalogTableName
        THEN [n \in {"id", "display_order", "name", "query", "description"} |->
                CASE n = "id" -> 111 [] n = "display_order" -> 112 [] n = "name" -> 113
                  [] n = "query" -> 114 [] n = "description" -> 115]
    ELSE IF tblName = SchemasTableName
        THEN [n \in {"type", "name", "fragment"} |->
                CASE n = "type" -> 121 [] n = "name" -> 122 [] n = "fragment" -> 123]
    ELSE <<>>

\* the new tag of a system table's column: a name the static table lacks
\* reads as the zero value
SystemTag(tblName, colName) ==
    LET static == newTagsByColName(tblName)
    IN IF colName \in DOMAIN static THEN static[colName] ELSE 0

\* handleSystemTableMappings without the fresh entry: the step-1 entries stay
handleSystemTableMappingsKeepEntries(tblName, sch, globalMapping) ==
    LET old == IF tblName \in DOMAIN globalMapping THEN globalMapping[tblName] ELSE <<>>
    IN MapSet(globalMapping, tblName,
              [tag \in (DOMAIN old) \cup SchTags(sch) |->
                  IF tag \in SchTags(sch)
                      THEN SystemTag(tblName, sch[CHOOSE i \in DOMAIN sch : sch[i].tag = tag].name)
                      ELSE old[tag]])

\* handleSystemTableMappings: the entry of a system table in the global
\* mapping is made afresh, from the schema of the table in root
handleSystemTableMappings(tblName, sch, globalMapping) ==
    MapSet(globalMapping, tblName,
           [tag \in SchTags(sch) |->
               SystemTag(tblName, sch[CHOOSE i \in DOMAIN sch : sch[i].tag = tag].name)])

\* the columns of the parent schema whose name the rebased parent schema lacks,
\* in the order Iter visits them
MissingCols(ps, rps) ==
    LET missing(c) == c.name \notin SchNames(rps)
    IN SelectSeq(ps, missing)

\* ExistingMapping that keeps every old tag
ExistingMappingKeepTags(ps, rps) == [oldTag \in SchTags(ps) |-> oldTag]

\* the step-1 entries of one table: every old tag of the parent schema mapped
\* to the tag of the column of the same name in the rebased parent schema
ExistingMapping(ps, rps) ==
    [oldTag \in SchTags(ps) |->
        LET col == ps[CHOOSE i \in DOMAIN ps : ps[i].tag = oldTag]
        IN rps[GetByName(rps, col.name)].tag]

\* NewCols that takes every column of the schema for new
NewColsAll(sch, tableMapping) == sch

\* the columns of sch that have no entry yet: the new columns of the commit
NewCols(sch, tableMapping) ==
    LET isNew(c) == c.tag \notin DOMAIN tableMapping
    IN SelectSeq(sch, isNew)

\* ExistingRebasedTags that starts from no tag
ExistingRebasedTagsNone(rebasedRoot) == {}

\* the known tags the generation starts from: every tag of the super schema of
\* the rebased parent root
ExistingRebasedTags(rebasedRoot) == RootSuperSchemaTags(rebasedRoot)

\* the entry of a table after step 2: every new column's old tag is set to its
\* generated tag
WithNewTags(tableMapping, newCols, newTags) ==
    [ot \in (DOMAIN tableMapping) \cup SchTags(newCols) |->
        IF ot \in SchTags(newCols)
            THEN newTags[CHOOSE i \in DOMAIN newCols : newCols[i].tag = ot]
            ELSE tableMapping[ot]]

\* schema.AutoGenerateTag: a tag that is none of the existing tags
AutoGenerateTag(existingTags) == Tags \ existingTags

\* AddGenerated that forgets the generated tag
AddGeneratedNot(existingTags, newTag) == existingTags

\* the known-tag set after a tag was generated (existingRebasedTags.Add)
AddGenerated(existingTags, newTag) == existingTags \cup {newTag}

\* the known-tag set after the generation loop produced the tags
RECURSIVE AddAllGenerated(_, _)
AddAllGenerated(existingTags, newTags) ==
    IF newTags = <<>> THEN existingTags
    ELSE AddAllGenerated(AddGenerated(existingTags, Head(newTags)), Tail(newTags))

\* the sequences of n tags the generation loop can produce
RECURSIVE GenerateTags(_, _)
GenerateTags(existingTags, n) ==
    IF n = 0 THEN {<<>>}
    ELSE UNION {{<<t>> \o rest : rest \in GenerateTags(AddGenerated(existingTags, t), n - 1)} :
                    t \in AutoGenerateTag(existingTags)}

\* ------------------------------------------------------------------ state
VARIABLES
    mode,               \* "migrate": MigrateUniqueTags; "tagrebase": TagRebaseForRef
    numParents,         \* the number of parents of the head commit
    root,               \* the root of the head commit
    parentRoot,         \* the root of its parent
    rebasedParentRoot,  \* the root of the rebased parent
    fault,              \* the operation of the store that fails in this run
    tagMapping,         \* the TagMapping being built, or the caller's
    existingRebasedTags, \* the known tags of the rebased lineage (buildTagMapping)
    todo,               \* the table names the running loop has yet to visit
    newRoot,            \* the root replayCommitWithNewTag is building
    pc,                 \* where the operation stands
    err,                \* the error it returned
    rebasedCommit,      \* the commit rebase returned for the head
    branches,           \* branch -> head commit
    \* rebase over the commit graph (MigrateUniqueTags, TagRebaseForRef)
    useCase,            \* "migrate" or "tagrebase"
    parents,            \* commit -> its parents
    needsRebase,        \* the commits the needs-rebase predicate is true for
    heads,              \* branch -> head commit, before the call
    dRefs,              \* the branches the call rebases, in order
    storeFault,         \* the call that fails in this run
    refs,               \* the branch refs of the store: branch -> commit
    visiting,           \* the stack of rebase: the commits being rebased
    visited,            \* original commit -> rebased commit
    replayed,           \* original commit -> the number of its replays
    newCommits,         \* the rebased heads rebase has produced
    idx,                \* the index of the loop over the branches
    hpc,                \* where the call stands
    \* one call of replayRowDiffs
    adStatus,           \* the diff stream: "none", "started", "closed"
    adIsDone,           \* ad.IsDone()
    adChan,             \* the diffs the producer has yet to deliver
    polled,             \* what the last GetDiffs returned
    rebasedRowEditor,   \* the row editor the diffs are applied to
    rrPc,               \* where replayRowDiffs stands
    rrResult,           \* what it returned
    \* dolt table cp
    working,            \* the working root: table name -> table
    commitRoot,         \* the root of the commit the command can name
    cpCall,             \* the arguments of the last run
    cpExit,             \* its exit code
    \* package mysql_file_handler
    privsFilePath,      \* the package variable
    fileMutex,          \* the goroutine that holds the mutex, or NoOne
    files,              \* the file system: path -> contents
    calls,              \* goroutine -> the call it is in
    lastAccess,         \* the last access to the path or to a file
    lastSave            \* the last successful SaveData

vars == <<mode, numParents, root, parentRoot, rebasedParentRoot, fault, tagMapping,
          existingRebasedTags, todo, newRoot, pc, err, rebasedCommit, branches,
          useCase, parents, needsRebase, heads, dRefs, storeFault, refs, visiting,
          visited, replayed, newCommits, idx, hpc,
          adStatus, adIsDone, adChan, polled, rebasedRowEditor, rrPc, rrResult,
          working, commitRoot, cpCall, cpExit,
          privsFilePath, fileMutex, files, calls, lastAccess, lastSave>>

\* the state of one replay of one commit (buildTagMapping, validateTagMapping,
\* replayCommitWithNewTag) and of the swap of its branch
replayVars == <<mode, numParents, root, parentRoot, rebasedParentRoot, fault, tagMapping,
                existingRebasedTags, todo, newRoot, pc, err, rebasedCommit, branches>>

\* the state of a rebase over the commit graph and of the swap of the branches
historyVars == <<useCase, parents, needsRebase, heads, dRefs, storeFault, refs, visiting,
                 visited, replayed, newCommits, idx, hpc>>

\* the state of one call of replayRowDiffs and of its AsyncDiffer
differVars == <<adStatus, adIsDone, adChan, polled, rebasedRowEditor, rrPc, rrResult>>

\* the state of dolt table cp
cpVars == <<working, commitRoot, cpCall, cpExit>>

\* the state of package mysql_file_handler and of its callers
privVars == <<privsFilePath, fileMutex, files, calls, lastAccess, lastSave>>

\* the state the replay of one commit does not touch
aside == <<historyVars, differVars, cpVars, privVars>>

\* the parts of the state at rest: a specification of one program holds the
\* state of the others at these values
ReplayIdle ==
    /\ mode = "none" /\ numParents = 0
    /\ root = EmptyRoot /\ parentRoot = EmptyRoot /\ rebasedParentRoot = EmptyRoot
    /\ fault = "none" /\ tagMapping = <<>> /\ existingRebasedTags = {}
    /\ todo = <<>> /\ newRoot = EmptyRoot /\ pc = "idle" /\ err = NoErr
    /\ rebasedCommit = "none" /\ branches = <<>>

HistoryIdle ==
    /\ useCase = "none" /\ parents = <<>> /\ needsRebase = {} /\ heads = <<>>
    /\ dRefs = <<>> /\ storeFault = <<>> /\ refs = <<>> /\ visiting = <<>>
    /\ visited = <<>> /\ replayed = <<>> /\ newCommits = <<>> /\ idx = 0 /\ hpc = "idle"

DifferIdle ==
    /\ adStatus = "none" /\ adIsDone = FALSE /\ adChan = <<>> /\ polled = <<>>
    /\ rebasedRowEditor = <<>> /\ rrPc = "idle" /\ rrResult = <<>>

CpIdle == working = <<>> /\ commitRoot = <<>> /\ cpCall = <<>> /\ cpExit = 0

PrivIdle ==
    /\ privsFilePath = "" /\ fileMutex = 0 /\ files = <<>> /\ calls = <<>>
    /\ lastAccess = <<>> /\ lastSave = <<>>

inputs == <<mode, numParents, root, parentRoot, rebasedParentRoot, fault>>

\* the store operations of a commit replay that can fail
Faults == {"none", "PutTable", "RebaseTag", "parent GetTable", "rebased parent GetTable",
           "prune Map", "diff read", "remap"}

\* ------------------------------------------------------- the roots of Init
\* the tags of the columns before the rebase: c is b renamed, d is added later
OrigTagOf == ("a" :> 1) @@ ("b" :> 2) @@ ("c" :> 2) @@ ("d" :> 3)

KindOf(name) == IF name \in {"a", "doc_name", "id", "type", "p"} THEN "int" ELSE "str"
IsKeyName(name) == name \in {"a", "doc_name", "id", "type", "p"}

SchemaOf(names, tagOf) ==
    [i \in DOMAIN names |-> Col(tagOf[names[i]], names[i], KindOf(names[i]), IsKeyName(names[i]))]

\* the value a row holds in a column: a renamed column keeps its values
ValOf(name) == IF name \in {"b", "c"} THEN 10 ELSE 20

KeyTuple(sch, n) ==
    LET pk == GetPKCols(sch) IN [i \in DOMAIN pk |-> <<pk[i].tag, n>>]
ValTuple(sch, bump) ==
    LET nk == GetNonPKCols(sch) IN [i \in DOMAIN nk |-> <<nk[i].tag, ValOf(nk[i].name) + bump>>]

\* a table of the schema with one row per key
MkTable(sch, keys, bump) ==
    [sch |-> sch, rows |-> [k \in {KeyTuple(sch, n) : n \in keys} |-> ValTuple(sch, bump)]]

\* a root of the tables, every SuperSchema holding its schema's tags and extra
MkRoot(tbls, extra) ==
    [tables |-> tbls, supers |-> [tn \in DOMAIN tbls |-> SchTags(tbls[tn].sch) \cup extra]]

\* no table, or each of the tables, under the name
Opt(tn, tbls) == {<<>>} \cup {tn :> t : t \in tbls}

ParentShapes == {<<"a">>, <<"a", "b">>, <<"a", "c">>}
ChildShapes == ParentShapes \cup {<<"a", "b", "d">>, <<"a", "c", "d">>}

OrigTables(shapes) == {MkTable(SchemaOf(sh, OrigTagOf), {1}, 0) : sh \in shapes}

\* the rebased parent's tables: the key column keeps tag 1, the other column has
\* any other tag
RebasedTables ==
    {MkTable(SchemaOf(sh, ("a" :> 1) @@ ("b" :> t) @@ ("c" :> t)), {1}, 0) :
        sh \in ParentShapes, t \in Tags \ {1}}

\* one ordinary table T, its schema changing between the parent and the commit
InitOneTable ==
    /\ mode = "migrate" /\ numParents = 1
    /\ \E p \in Opt("T", OrigTables(ParentShapes)), c \in Opt("T", OrigTables(ChildShapes)),
          r \in Opt("T", RebasedTables), extra \in {{}, {3}} :
            /\ parentRoot = MkRoot(p, {})
            /\ root = MkRoot(c, {})
            /\ rebasedParentRoot = MkRoot(r, extra)

\* two ordinary tables T and U that use the same tags before the rebase
InitTwoTables ==
    /\ mode = "migrate" /\ numParents = 1
    /\ \E pu \in Opt("U", OrigTables({<<"a">>})),
          ct \in OrigTables({<<"a">>, <<"a", "b">>}),
          cu \in Opt("U", OrigTables({<<"a">>, <<"a", "b">>})),
          t \in {2, 3} :
            /\ parentRoot = MkRoot(("T" :> MkTable(SchemaOf(<<"a">>, OrigTagOf), {1}, 0)) @@ pu, {})
            /\ root = MkRoot(("T" :> ct) @@ cu, {})
            /\ rebasedParentRoot =
                   MkRoot(("T" :> MkTable(SchemaOf(<<"a">>, OrigTagOf), {1}, 0))
                          @@ (IF pu = <<>> THEN <<>>
                              ELSE "U" :> MkTable(SchemaOf(<<"a">>, "a" :> t), {1}, 0)), {})

\* the schemas a system table is given: its well-known columns, and columns the
\* static table does not know
SystemShapes(sn) ==
    IF sn = DocTableName
        THEN {<<"doc_name", "doc_text">>, <<"doc_name", "x">>, <<"doc_name", "x", "y">>}
    ELSE IF sn = DoltQueryCatalogTableName THEN {<<"id", "name">>}
    ELSE IF sn = SchemasTableName THEN {<<"type", "fragment">>}
    ELSE {<<"p">>, <<"p", "q">>}

\* the columns of a system table are tagged by position before the rebase
PositionTags(names) == [n \in Range(names) |-> CHOOSE i \in DOMAIN names : names[i] = n]

SystemTables(sn) == {MkTable(SchemaOf(sh, PositionTags(sh)), {1}, 0) : sh \in SystemShapes(sn)}

\* the same tables under the static tags, where the static table knows every column
StaticSystemTables(sn) ==
    {MkTable(SchemaOf(sh, newTagsByColName(sn)), {1}, 0) :
        sh \in {x \in SystemShapes(sn) : Range(x) \subseteq DOMAIN newTagsByColName(sn)}}

\* one system table, next to an ordinary table T or alone
InitSystemTable ==
    /\ mode = "migrate" /\ numParents = 1
    /\ \E sn \in {tn \in TableNames : HasDoltPrefix(tn)},
          t \in Opt("T", OrigTables({<<"a">>})) :
        \E p \in Opt(sn, SystemTables(sn)), c \in Opt(sn, SystemTables(sn)),
           r \in Opt(sn, SystemTables(sn) \cup StaticSystemTables(sn)) :
            /\ parentRoot = MkRoot(p @@ t, {})
            /\ root = MkRoot(c @@ t, {})
            /\ rebasedParentRoot = MkRoot(r @@ t, {})

\* the mappings a caller hands to TagRebaseForRef
CallerMappings ==
    LET entries(olds, news) == UNION {[S -> news] : S \in SUBSET olds}
    IN {t @@ u : t \in Opt("T", entries({1, 2}, {2, 4})),
                 u \in Opt("U", {1 :> 2, 1 :> 4})}

RowVariants(sch) == {MkTable(sch, {1}, 0), MkTable(sch, {1}, 1), MkTable(sch, {1, 2}, 0)}

\* a table T whose rows change, next to a table U that does not change
InitCallerMapping ==
    /\ mode = "tagrebase" /\ numParents = 1
    /\ \E p \in Opt("T", {MkTable(SchemaOf(<<"a", "b">>, OrigTagOf), {1}, 0),
                            MkTable(SchemaOf(<<"a", "b">>, OrigTagOf), {1, 2}, 0)}),
          c \in Opt("T", RowVariants(SchemaOf(<<"a", "b">>, OrigTagOf))),
          r \in Opt("T", {MkTable(SchemaOf(<<"a", "b">>, OrigTagOf), {1}, 0),
                          MkTable(SchemaOf(<<"a", "b">>, OrigTagOf), {2}, 1),
                          MkTable(SchemaOf(<<"a", "b">>, ("a" :> 1) @@ ("b" :> 4)), {1}, 0),
                          MkTable(SchemaOf(<<"a", "b">>, ("a" :> 1) @@ ("b" :> 4)), {}, 0)}) :
        LET u == "U" :> MkTable(SchemaOf(<<"a">>, OrigTagOf), {1}, 0)
        IN /\ parentRoot = MkRoot(p @@ u, {})
           /\ root = MkRoot(c @@ u, {})
           /\ rebasedParentRoot = MkRoot(r @@ u, {})

\* a head commit without parents
InitNoParents ==
    /\ mode = "tagrebase" /\ numParents = 0
    /\ parentRoot = EmptyRoot /\ rebasedParentRoot = EmptyRoot
    /\ \E c \in Opt("T", RowVariants(SchemaOf(<<"a", "b">>, OrigTagOf))) : root = MkRoot(c, {})

\* a schema whose primary key is the columns of the given names
KeyedSchemaOf(names, tagOf, keyNames) ==
    [i \in DOMAIN names |->
        Col(tagOf[names[i]], names[i], KindOf(names[i]), names[i] \in keyNames)]

\* the rows of a table with the rows of the given keys left out
WithoutKeys(tbl, keys) ==
    [tbl EXCEPT !.rows = [k \in {x \in DOMAIN tbl.rows : \A i \in DOMAIN x : x[i][2] \notin keys}
                            |-> tbl.rows[k]]]

\* the commit drops the column b of T: its rows are rewritten without the
\* values of b, or the schema alone changes and the rows keep them
InitDroppedColumn ==
    /\ mode = "migrate" /\ numParents = 1
    /\ \E t \in {2, 4}, stale \in BOOLEAN, gone \in {{}, {2}} :
        LET p == MkTable(SchemaOf(<<"a", "b">>, OrigTagOf), {1, 2}, 0)
            c == MkTable(SchemaOf(<<"a">>, OrigTagOf), {1, 2}, 0)
        IN /\ parentRoot = MkRoot("T" :> p, {})
           /\ root = MkRoot("T" :> WithoutKeys(IF stale THEN [c EXCEPT !.rows = p.rows] ELSE c,
                                               gone), {2})
           /\ rebasedParentRoot =
                  MkRoot("T" :> MkTable(SchemaOf(<<"a", "b">>, ("a" :> 1) @@ ("b" :> t)),
                                        {1, 2}, 0), {})

KeySets == {{"a"}, {"b"}, {"a", "b"}}

\* the commit changes the primary key of T, and its rows are keyed anew
InitKeyChange ==
    /\ mode = "migrate" /\ numParents = 1
    /\ \E pk \in KeySets, ck \in KeySets, t \in {2, 4}, keys \in {{1}, {1, 2}} :
        /\ parentRoot = MkRoot("T" :> MkTable(KeyedSchemaOf(<<"a", "b">>, OrigTagOf, pk), {1}, 0), {})
        /\ root = MkRoot("T" :> MkTable(KeyedSchemaOf(<<"a", "b">>, OrigTagOf, ck), keys, 0), {})
        /\ rebasedParentRoot =
               MkRoot("T" :> MkTable(KeyedSchemaOf(<<"a", "b">>, ("a" :> 1) @@ ("b" :> t), pk),
                                     {1}, 0), {})

Init ==
    /\ \/ InitOneTable
       \/ InitTwoTables
       \/ InitSystemTable
       \/ InitCallerMapping
       \/ InitNoParents
       \/ InitDroppedColumn
       \/ InitKeyChange
    /\ HistoryIdle /\ DifferIdle /\ CpIdle /\ PrivIdle
    /\ fault \in (IF mode = "tagrebase" THEN Faults ELSE {"none"})
    /\ IF mode = "migrate"
          THEN /\ tagMapping = <<>>
               /\ pc = "build1"
               /\ todo = GetTableNames(parentRoot)
          ELSE /\ tagMapping \in CallerMappings
               /\ pc = "validate"
               /\ todo = <<>>
    /\ existingRebasedTags = {}
    /\ newRoot = EmptyRoot
    /\ err = NoErr
    /\ rebasedCommit = "none"
    /\ branches = [b \in {"master"} |-> "head"]

\* --------------------------------------------------------- buildTagMapping
\* the operation ends with an error: the replay closure returns it, rebase
\* returns it, and the caller returns it before it touches a branch
Fail(e) ==
    /\ pc' = "error"
    /\ err' = e

\* step 1, one table of parentRoot: collect the existing mapping
BuildExisting ==
    /\ pc = "build1" /\ todo # <<>>
    /\ LET tn == Head(todo) IN
        IF ~HasTable(rebasedParentRoot, tn)
          THEN /\ Fail(Error("table not found in rebased parent root", tn, "", NoTag))
               /\ tagMapping' = <<>>
               /\ UNCHANGED todo
        ELSE LET rps == rebasedParentRoot.tables[tn].sch
                 ps == parentRoot.tables[tn].sch
                 missing == MissingCols(GetAllCols(ps), GetAllCols(rps))
             IN IF missing # <<>>
                  THEN /\ Fail(Error("column not found in rebased parent root", "",
                                     Head(missing).name, NoTag))
                       /\ tagMapping' = <<>>
                       /\ UNCHANGED todo
                  ELSE /\ tagMapping' = MapSet(tagMapping, tn, ExistingMapping(ps, rps))
                       /\ todo' = Tail(todo)
                       /\ UNCHANGED <<pc, err>>
    /\ UNCHANGED <<aside, inputs, existingRebasedTags, newRoot, rebasedCommit, branches>>

\* between the steps: the tables of root, and the tags of the rebased parent
\* root's super schema
BuildCollected ==
    /\ pc = "build1" /\ todo = <<>>
    /\ pc' = "build2"
    /\ todo' = GetTableNames(root)
    /\ existingRebasedTags' = ExistingRebasedTags(rebasedParentRoot)
    /\ UNCHANGED <<aside, inputs, tagMapping, newRoot, err, rebasedCommit, branches>>

\* step 2, one ordinary table of root: a generated tag for every new column
BuildNew ==
    /\ pc = "build2" /\ todo # <<>> /\ ~HasDoltPrefix(Head(todo))
    /\ LET tn == Head(todo)
           tableMapping == IF tn \in DOMAIN tagMapping THEN tagMapping[tn] ELSE <<>>
           newCols == NewCols(GetAllCols(root.tables[tn].sch), tableMapping)
       IN \E newTags \in GenerateTags(existingRebasedTags, Len(newCols)) :
            /\ tagMapping' = MapSet(tagMapping, tn, WithNewTags(tableMapping, newCols, newTags))
            /\ existingRebasedTags' = AddAllGenerated(existingRebasedTags, newTags)
    /\ todo' = Tail(todo)
    /\ UNCHANGED <<aside, inputs, newRoot, pc, err, rebasedCommit, branches>>

\* step 2, one system table of root: the static mapping replaces its entry
BuildSystem ==
    /\ pc = "build2" /\ todo # <<>> /\ HasDoltPrefix(Head(todo))
    /\ tagMapping' = handleSystemTableMappings(Head(todo), root.tables[Head(todo)].sch,
                                               tagMapping)
    /\ todo' = Tail(todo)
    /\ UNCHANGED <<aside, inputs, existingRebasedTags, newRoot, pc, err, rebasedCommit, branches>>

\* buildTagMapping returns the mapping to the replay closure
BuildReturn ==
    /\ pc = "build2" /\ todo = <<>>
    /\ pc' = "validate"
    /\ UNCHANGED <<aside, inputs, tagMapping, existingRebasedTags, todo, newRoot, err,
                   rebasedCommit, branches>>

\* ------------------------------------------------- validation and the gate
\* replayCommitWithNewTag starts: the union of the table names, newRoot is the
\* rebased parent root
StartReplay ==
    /\ pc' = "replay"
    /\ todo' = UnionTableNames(root, rebasedParentRoot)
    /\ newRoot' = rebasedParentRoot
    /\ UNCHANGED <<err, rebasedCommit>>

\* validateTagMapping, on the built mapping in the replay closure of
\* MigrateUniqueTags and on the caller's mapping in TagRebaseForCommits
Validate ==
    /\ pc = "validate"
    /\ \E e \in validateTagMapping(tagMapping) :
        IF e # NoErr THEN Fail(e) /\ UNCHANGED <<todo, newRoot, rebasedCommit>>
        ELSE IF mode = "migrate" THEN StartReplay
        ELSE pc' = "nerf" /\ UNCHANGED <<todo, newRoot, err, rebasedCommit>>
    /\ UNCHANGED <<aside, inputs, tagMapping, existingRebasedTags, branches>>

\* the needs-rebase predicate of TagRebaseForCommits on the head commit: when
\* it is false, rebase returns the commit itself
NeedsRebase ==
    /\ pc = "nerf"
    /\ IF numParents > 0 /\ tagExistsInHistory(root, tagMapping)
         THEN StartReplay
         ELSE /\ pc' = "delete"
              /\ rebasedCommit' = "head"
              /\ UNCHANGED <<todo, newRoot, err>>
    /\ UNCHANGED <<aside, inputs, tagMapping, existingRebasedTags, branches>>

\* -------------------------------------------------- replayCommitWithNewTag
\* the entry of the table in the mapping; a missing entry reads as a nil map
TableMapping(tm, tblName) == IF tblName \in DOMAIN tm THEN tm[tblName] ELSE <<>>

\* only rebase a table if the mapping has an entry for it and at least one of
\* the tags of the entry is in the table's schema at this commit
TableNeedsRebasing(tm, tblName, sch) ==
    /\ tblName \in DOMAIN tm
    /\ \E tag \in SchTags(GetAllCols(sch)) : tag \in DOMAIN tm[tblName]

\* RebaseSchemaCols that leaves every tag as it is
RebaseSchemaColsKeepTags(sch, tableMapping) == sch

\* the schema rebase: every column with its tag replaced per the mapping
RebaseSchemaCols(sch, tableMapping) ==
    [i \in DOMAIN sch |->
        IF sch[i].tag \in DOMAIN tableMapping
            THEN [sch[i] EXCEPT !.tag = tableMapping[sch[i].tag]]
            ELSE sch[i]]

\* the rows of the table in a root, or an empty map
RowDataOrEmpty(r, tblName) == IF HasTable(r, tblName) THEN r.tables[tblName].rows ELSE EmptyMap

\* the schema of the table in the rebased parent root, or nil
SchemaOrNil(r, tblName) == IF HasTable(r, tblName) THEN r.tables[tblName].sch ELSE NilSchema

\* ReplayDeletedTable that leaves the table in
ReplayDeletedTableKept(nr, tblName) == nr

\* the root under construction after a table that root lacks was found in it
ReplayDeletedTable(nr, tblName) == RemoveTables(nr, tblName)

\* the root under construction after the test of tableNeedsRebasing: a table
\* that needs no rebasing is put as it is, and the loop body goes on
AfterVerbatimPut(nr, tblName, tbl, needsRebasing) ==
    IF ~needsRebasing THEN PutTable(nr, tblName, tbl) ELSE nr

\* the rows of the table in parentRoot as the replay reads them: the error of
\* a failed lookup is overwritten and the table reads as not found
ParentRowsRead(tblName) ==
    IF fault = "parent GetTable" THEN EmptyMap ELSE RowDataOrEmpty(parentRoot, tblName)

\* the same for the rows and the schema of the table in rebasedParentRoot
RebasedParentRowsRead(tblName) ==
    IF fault = "rebased parent GetTable" THEN EmptyMap
    ELSE RowDataOrEmpty(rebasedParentRoot, tblName)

RebasedParentSchRead(tblName) ==
    IF fault = "rebased parent GetTable" THEN NilSchema
    ELSE SchemaOrNil(rebasedParentRoot, tblName)

\* what the replay gets from dropValsForDeletedColumns: when the pruned rows
\* cannot be materialized it gets an empty map and no error
PrunedRowData(rows, sch, parentSch) ==
    IF fault = "prune Map" /\ parentSch # NilSchema /\ ~SchemasAreEqual(sch, parentSch)
        THEN EmptyMap
        ELSE dropValsForDeletedColumns(rows, sch, parentSch)

\* what replayRowDiffs can return, a row map and whether it returns an error.
\* A diff that cannot be remapped ends the loop with an empty map and no error.
\* A read error of the differ ends the stream after some of the diffs: when
\* the differ is done on the poll that returns the error, the loop breaks and
\* the rows edited so far are returned without error; otherwise the error is
\* returned.
ReplayRowOutcomes(rSch, rows, parentRows, rebasedParentRows, tableMapping) ==
    LET ds == Diffs(parentRows, rows) IN
    IF fault = "remap" /\ ds # <<>>
        THEN {[rows |-> EmptyMap, failed |-> FALSE]}
    ELSE IF fault = "diff read"
        THEN {[rows |-> EmptyMap, failed |-> TRUE]}
             \cup {[rows |-> r, failed |-> FALSE] :
                     r \in UNION {ApplyDiffs(SubSeq(ds, 1, n), rebasedParentRows, rSch, tableMapping) :
                                    n \in 0..Len(ds)}}
    ELSE {[rows |-> r, failed |-> FALSE] :
            r \in replayRowDiffs(rSch, rows, parentRows, rebasedParentRows, tableMapping)}

\* the outcomes of the row rebase of a table of root
RowOutcomes(tblName, tbl, tableMapping) ==
    LET rebasedSch == RebaseSchemaCols(tbl.sch, tableMapping)
        pruned == PrunedRowData(RebasedParentRowsRead(tblName), rebasedSch,
                                RebasedParentSchRead(tblName))
    IN ReplayRowOutcomes(rebasedSch, tbl.rows, ParentRowsRead(tblName), pruned, tableMapping)

\* RebuiltRoot that stores the SuperSchema of root as it is
RebuiltRootOldSuperSchema(nr, tblName, tbl, tableMapping, rebasedRows) ==
    PutTable(PutSuperSchema(nr, tblName, GetSuperSchema(root, tblName)),
             tblName,
             [sch |-> RebaseSchemaCols(tbl.sch, tableMapping), rows |-> rebasedRows])

\* the root under construction with the rebased table put over the table
RebuiltRoot(nr, tblName, tbl, tableMapping, rebasedRows) ==
    PutTable(PutSuperSchema(nr, tblName, RebaseTag(GetSuperSchema(root, tblName), tableMapping)),
             tblName,
             [sch |-> RebaseSchemaCols(tbl.sch, tableMapping), rows |-> rebasedRows])

\* one pass of the loop over the union of the table names
ReplayTable ==
    /\ pc = "replay" /\ todo # <<>>
    /\ LET tblName == Head(todo) IN
        IF ~HasTable(root, tblName)
          THEN \* the table was deleted since the parent commit
               IF ~HasTable(newRoot, tblName)
                 THEN /\ Fail(Error("table not found in rebasedParentRoot", tblName, "", NoTag))
                      /\ UNCHANGED <<todo, newRoot>>
                 ELSE /\ newRoot' = ReplayDeletedTable(newRoot, tblName)
                      /\ todo' = Tail(todo)
                      /\ UNCHANGED <<pc, err>>
        ELSE LET tbl == root.tables[tblName]
                 tableMapping == TableMapping(tagMapping, tblName)
                 nr == AfterVerbatimPut(newRoot, tblName, tbl,
                                        TableNeedsRebasing(tagMapping, tblName, tbl.sch))
             IN IF HasTagCollision(RebaseSchemaCols(tbl.sch, tableMapping))
                  THEN /\ Fail(Error("two different columns with the same tag", tblName, "", NoTag))
                       /\ UNCHANGED <<todo, newRoot>>
                  ELSE \E timedOut \in BOOLEAN, o \in RowOutcomes(tblName, tbl, tableMapping),
                          nilPanics \in BOOLEAN :
                        IF timedOut
                          THEN \* a poll of the differ returned no diff in time
                               /\ pc' = "panic"
                               /\ UNCHANGED <<todo, newRoot, err>>
                        ELSE IF o.failed
                          THEN /\ Fail(Error("read error", tblName, "", NoTag))
                               /\ UNCHANGED <<todo, newRoot>>
                        ELSE IF fault = "PutTable" /\ ~TableNeedsRebasing(tagMapping, tblName, tbl.sch)
                          THEN \* the failed verbatim put left newRoot nil
                               /\ pc' = "panic"
                               /\ UNCHANGED <<todo, newRoot, err>>
                        ELSE IF fault = "RebaseTag"
                          THEN \* the failed tag rebase left rebasedSS nil
                               /\ IF nilPanics
                                    THEN pc' = "panic" /\ UNCHANGED err
                                    ELSE Fail(Error("store write", tblName, "", NoTag))
                               /\ UNCHANGED <<todo, newRoot>>
                        ELSE IF fault = "PutTable"
                          THEN /\ Fail(Error("store write", tblName, "", NoTag))
                               /\ UNCHANGED <<todo, newRoot>>
                        ELSE /\ newRoot' = RebuiltRoot(nr, tblName, tbl, tableMapping, o.rows)
                             /\ todo' = Tail(todo)
                             /\ UNCHANGED <<pc, err>>
    /\ UNCHANGED <<aside, inputs, tagMapping, existingRebasedTags, rebasedCommit, branches>>

\* replayCommitWithNewTag returns newRoot, and rebase the commit made of it
ReplayReturn ==
    /\ pc = "replay" /\ todo = <<>>
    /\ pc' = "delete"
    /\ rebasedCommit' = "rebased"
    /\ UNCHANGED <<aside, inputs, tagMapping, existingRebasedTags, todo, newRoot, err, branches>>

\* ------------------------------------------------------------ branch swap
\* DeleteBranch that does not wait for rebase to return
DeleteBranchEarly ==
    /\ pc \in {"delete", "replay"}
    /\ branches' = MapRemove(branches, "master")
    /\ pc' = (IF pc = "delete" THEN "create" ELSE pc)
    /\ UNCHANGED <<aside, inputs, tagMapping, existingRebasedTags, todo, newRoot, err, rebasedCommit>>

DeleteBranch ==
    /\ pc = "delete"
    /\ branches' = MapRemove(branches, "master")
    /\ pc' = "create"
    /\ UNCHANGED <<aside, inputs, tagMapping, existingRebasedTags, todo, newRoot, err, rebasedCommit>>

NewBranchAtCommit ==
    /\ pc = "create"
    /\ branches' = MapSet(branches, "master", rebasedCommit)
    /\ pc' = "done"
    /\ UNCHANGED <<aside, inputs, tagMapping, existingRebasedTags, todo, newRoot, err, rebasedCommit>>

Next ==
    \/ BuildExisting
    \/ BuildCollected
    \/ BuildNew
    \/ BuildSystem
    \/ BuildReturn
    \/ Validate
    \/ NeedsRebase
    \/ ReplayTable
    \/ ReplayReturn
    \/ DeleteBranch
    \/ NewBranchAtCommit

Spec == Init /\ [][Next]_vars

\* ------------------------------------------------------------- properties
\* no two distinct old tags of the entry map to the same new tag
Injective(tableMapping) ==
    \A o1, o2 \in DOMAIN tableMapping : tableMapping[o1] = tableMapping[o2] => o1 = o2

InjectivePerTable(tm) == \A tn \in DOMAIN tm : Injective(tm[tn])

\* some two distinct old tags of table tn map to the new tag nt
Collides(tm, tn, nt) ==
    /\ tn \in DOMAIN tm
    /\ \E o1, o2 \in DOMAIN tm[tn] : o1 # o2 /\ tm[tn][o1] = nt /\ tm[tn][o2] = nt

BuildErrorKinds == {"table not found in rebased parent root",
                    "column not found in rebased parent root"}

\* the replay of the commit's tables has started
ReplayStarted ==
    \/ pc \in {"replay", "panic"}
    \/ rebasedCommit = "rebased"
    \/ pc = "error" /\ err.kind \notin BuildErrorKinds \cup {"duplicate tag"}

\* C1: validateTagMapping returns an error exactly when some table's entry
\* sends two distinct old tags to one new tag, and the error names such a new
\* tag and its table; a mapping injective for every table is accepted.
C1_ValidateExactlyOnCollision ==
    [][pc = "validate" =>
        /\ (pc' = "error") <=> ~InjectivePerTable(tagMapping)
        /\ pc' = "error" =>
              /\ err'.kind = "duplicate tag"
              /\ Collides(tagMapping, err'.table, err'.tag)]_vars

\* the mapping {T: {1: 4, 2: 4}} was rejected for tag 4 in table T
C1_Witness ==
    /\ pc = "error" /\ err = Error("duplicate tag", "T", "", 4)
    /\ "T" \in DOMAIN tagMapping
    /\ DOMAIN tagMapping["T"] = {1, 2}
    /\ tagMapping["T"][1] = 4 /\ tagMapping["T"][2] = 4

\* C2: no table is replayed under a mapping that has not passed validation,
\* in MigrateUniqueTags and in TagRebaseForCommits; when validation fails the
\* operation ends with the error, no root was built, no commit was made and
\* the branch still points at the original head.
C2_ValidatedBeforeReplay ==
    /\ ReplayStarted => InjectivePerTable(tagMapping)
    /\ (pc = "error" /\ err.kind = "duplicate tag") =>
          /\ ~InjectivePerTable(tagMapping)
          /\ newRoot = EmptyRoot
          /\ rebasedCommit = "none"
          /\ branches = [b \in {"master"} |-> "head"]

\* the mapping built for the commit failed validation in MigrateUniqueTags
C2_Witness ==
    /\ mode = "migrate" /\ pc = "error" /\ err.kind = "duplicate tag"
    /\ newRoot = EmptyRoot /\ "master" \in DOMAIN branches

\* buildTagMapping returned an error, or a mapping
BuildFailed == pc = "error" /\ err.kind \in BuildErrorKinds
BuildReturned == mode = "migrate" /\ pc \notin {"build1", "build2"} /\ ~BuildFailed

\* the columns of a system table whose names the static table lacks
UnknownSystemCols(tn, sch) ==
    {i \in DOMAIN sch : sch[i].name \notin DOMAIN newTagsByColName(tn)}

\* C3 as stated: every mapping that buildTagMapping returns without error is
\* injective for every table, ordinary or system.
C3_BuiltMappingInjective == BuildReturned => InjectivePerTable(tagMapping)

\* C3 as amended: in a mapping that buildTagMapping returns, two distinct old
\* tags of a table share a new tag only when the table is a system table of
\* root, both belong to columns whose names the static table lacks, and the
\* shared new tag is 0; every ordinary table's entry is injective.
C3_BuiltMappingInjectiveButZero ==
    BuildReturned =>
        \A tn \in DOMAIN tagMapping : \A o1, o2 \in DOMAIN tagMapping[tn] :
            (o1 # o2 /\ tagMapping[tn][o1] = tagMapping[tn][o2]) =>
                /\ HasDoltPrefix(tn) /\ HasTable(root, tn)
                /\ tagMapping[tn][o1] = 0
                /\ {o1, o2} \subseteq
                      {root.tables[tn].sch[i].tag : i \in UnknownSystemCols(tn, root.tables[tn].sch)}

\* a returned mapping whose entry for T holds a tag mapped from the parent and
\* two generated tags
C3_Witness ==
    /\ BuildReturned /\ pc = "validate"
    /\ "T" \in DOMAIN tagMapping
    /\ HasTable(parentRoot, "T")
    /\ Cardinality(DOMAIN tagMapping["T"]) = 3
    /\ Cardinality(DOMAIN tagMapping["T"] \ SchTags(parentRoot.tables["T"].sch)) = 2

\* a table of parentRoot that rebasedParentRoot lacks, or a column name of a
\* parent schema that the rebased parent's schema lacks
StructuralMismatch ==
    \E tn \in DOMAIN parentRoot.tables :
        \/ ~HasTable(rebasedParentRoot, tn)
        \/ \E i \in DOMAIN parentRoot.tables[tn].sch :
              \A j \in DOMAIN rebasedParentRoot.tables[tn].sch :
                  rebasedParentRoot.tables[tn].sch[j].name # parentRoot.tables[tn].sch[i].name

\* every column of the parent's table tn has its old tag mapped to the tag of
\* the column of the same name in the rebased parent
MappedByName(tn) ==
    /\ tn \in DOMAIN tagMapping
    /\ \A i \in DOMAIN parentRoot.tables[tn].sch :
        LET col == parentRoot.tables[tn].sch[i]
        IN /\ col.tag \in DOMAIN tagMapping[tn]
           /\ \E j \in DOMAIN rebasedParentRoot.tables[tn].sch :
                /\ rebasedParentRoot.tables[tn].sch[j].name = col.name
                /\ rebasedParentRoot.tables[tn].sch[j].tag = tagMapping[tn][col.tag]

\* C4 as stated: buildTagMapping fails, and returns no mapping, whenever a
\* table of parentRoot is absent from rebasedParentRoot or a column name of a
\* parent schema is absent from the rebased parent's schema; otherwise every
\* parent column's old tag is mapped to the tag of the same-named column of
\* the rebased parent.
C4_FailsOrMapsByName ==
    (mode = "migrate" /\ pc # "build1") =>
        /\ StructuralMismatch => (BuildFailed /\ tagMapping = <<>>)
        /\ (~StructuralMismatch /\ pc # "build2") =>
              (~BuildFailed /\ \A tn \in DOMAIN parentRoot.tables : MappedByName(tn))

\* C4 as amended: the same, except that the entry of a system table that root
\* holds too is not the by-name entry (handleSystemTableMappings replaces it).
C4_FailsOrMapsOrdinaryByName ==
    (mode = "migrate" /\ pc # "build1") =>
        /\ StructuralMismatch => (BuildFailed /\ tagMapping = <<>>)
        /\ (~StructuralMismatch /\ pc # "build2") =>
              /\ ~BuildFailed
              /\ \A tn \in DOMAIN parentRoot.tables :
                    ~(HasDoltPrefix(tn) /\ HasTable(root, tn)) => MappedByName(tn)

\* a returned mapping that sends the parent's tag 2 of T to the rebased tag 4
C4_Witness ==
    /\ BuildReturned /\ pc = "validate"
    /\ HasTable(parentRoot, "T") /\ "T" \in DOMAIN tagMapping
    /\ 2 \in SchTags(parentRoot.tables["T"].sch)
    /\ 2 \in DOMAIN tagMapping["T"] /\ tagMapping["T"][2] = 4

\* the old tags of the new columns of root's ordinary table tn: those the
\* parent's table of the same name does not hold
NewOldTags(tn) ==
    SchTags(root.tables[tn].sch)
        \ (IF HasTable(parentRoot, tn) THEN SchTags(parentRoot.tables[tn].sch) ELSE {})

OrdinaryTablesOf(r) == {tn \in DOMAIN r.tables : ~HasDoltPrefix(tn)}

\* C5: every new column of every ordinary table of root has a generated tag
\* that is no tag of the rebased parent root's super schema and differs from
\* the tag generated for every other new column, of the same table or another.
C5_GeneratedTagsFresh ==
    BuildReturned =>
        \A tn \in OrdinaryTablesOf(root) : \A ot \in NewOldTags(tn) :
            /\ tn \in DOMAIN tagMapping /\ ot \in DOMAIN tagMapping[tn]
            /\ tagMapping[tn][ot] \notin RootSuperSchemaTags(rebasedParentRoot)
            /\ \A tn2 \in OrdinaryTablesOf(root) : \A ot2 \in NewOldTags(tn2) :
                  (<<tn, ot>> # <<tn2, ot2>>) => tagMapping[tn][ot] # tagMapping[tn2][ot2]

\* new columns in two tables, which had the same old tag
C5_Witness ==
    /\ BuildReturned /\ pc = "validate"
    /\ {"T", "U"} \subseteq DOMAIN root.tables
    /\ 2 \in NewOldTags("T") /\ 2 \in NewOldTags("U")
    /\ RootSuperSchemaTags(rebasedParentRoot) # {}

\* replayCommitWithNewTag returned a root, and rebase the commit made of it
ReplayReturned == pc \in {"delete", "create", "done"} /\ rebasedCommit = "rebased"

\* the scenario of the renamed column: the parent's T is {a:1, b:2}, the commit
\* renames b to c and adds d:3, the rebased parent's T is {a:1, b:t}
RenameScenario ==
    /\ mode = "migrate"
    /\ parentRoot.tables = ("T" :> MkTable(SchemaOf(<<"a", "b">>, OrigTagOf), {1}, 0))
    /\ root.tables = ("T" :> MkTable(SchemaOf(<<"a", "c", "d">>, OrigTagOf), {1}, 0))
    /\ \E t \in Tags \ {1} :
          rebasedParentRoot.tables =
              ("T" :> MkTable(SchemaOf(<<"a", "b">>, ("a" :> 1) @@ ("b" :> t)), {1}, 0))

\* C6: a column of the commit whose tag the parent's table holds, renamed or
\* not, keeps the new tag of the parent's column of that tag, found by name in
\* the rebased parent; every other column has a tag that the rebased parent's
\* super schema lacks; and in the scenario the replayed T has the columns
\* a, c, d under the tags 1, the rebased tag of b, and a generated tag, and its
\* row holds the value of c and the value of d under the last two.
C6_RenamedColumnKeepsMapping ==
    /\ BuildReturned =>
          \A tn \in OrdinaryTablesOf(root) \cap DOMAIN parentRoot.tables :
            \A i \in DOMAIN root.tables[tn].sch :
              LET col == root.tables[tn].sch[i]
                  ps == parentRoot.tables[tn].sch
                  rps == rebasedParentRoot.tables[tn].sch
              IN IF col.tag \in SchTags(ps)
                   THEN \E j \in DOMAIN ps, k \in DOMAIN rps :
                          /\ ps[j].tag = col.tag
                          /\ rps[k].name = ps[j].name
                          /\ tagMapping[tn][col.tag] = rps[k].tag
                   ELSE tagMapping[tn][col.tag] \notin RootSuperSchemaTags(rebasedParentRoot)
    /\ (RenameScenario /\ ReplayReturned) =>
          LET t == rebasedParentRoot.tables["T"].sch[2].tag
              f == tagMapping["T"][3]
          IN /\ tagMapping["T"][1] = 1 /\ tagMapping["T"][2] = t
             /\ f \notin {1, t}
             /\ newRoot.tables["T"] =
                   [sch |-> <<Col(1, "a", "int", TRUE), Col(t, "c", "str", FALSE),
                              Col(f, "d", "str", FALSE)>>,
                    rows |-> (<<<<1, 1>>>> :> <<<<t, ValOf("c")>>, <<f, ValOf("d")>>>>)]

\* the scenario replayed, the rebased tag of b being 4
C6_Witness ==
    /\ RenameScenario /\ ReplayReturned /\ pc = "done"
    /\ tagMapping["T"][2] = 4
    /\ newRoot.tables["T"].sch[2].name = "c" /\ newRoot.tables["T"].sch[2].tag = 4

\* the entry handleSystemTableMappings makes for a schema of a system table
StaticEntry(tn, sch) ==
    [tag \in SchTags(sch) |->
        SystemTag(tn, sch[CHOOSE i \in DOMAIN sch : sch[i].tag = tag].name)]

\* C7 as stated: the entry of every system table in a returned mapping is the
\* static one, whatever parentRoot and rebasedParentRoot are, and
\* buildTagMapping never fails with 'table not found' on a system table nor
\* with 'column not found' on a system table's column.
C7_SystemTablesBypassSteps ==
    /\ BuildReturned =>
          \A tn \in DOMAIN tagMapping : HasDoltPrefix(tn) =>
              /\ HasTable(root, tn)
              /\ tagMapping[tn] = StaticEntry(tn, root.tables[tn].sch)
    /\ BuildFailed =>
          /\ ~HasDoltPrefix(err.table)
          /\ \A tn \in DOMAIN parentRoot.tables :
                HasDoltPrefix(tn) => err.col \notin SchNames(parentRoot.tables[tn].sch)

\* C7 as amended: the entry of every system table of root in a returned
\* mapping is the static one, made from root's schema of the table alone; a
\* system table of parentRoot that root lacks keeps the entry of step 1.
C7_SystemTablesOfRootStatic ==
    BuildReturned =>
        /\ \A tn \in DOMAIN root.tables : HasDoltPrefix(tn) =>
              /\ tn \in DOMAIN tagMapping
              /\ tagMapping[tn] = StaticEntry(tn, root.tables[tn].sch)
        /\ \A tn \in DOMAIN parentRoot.tables \ DOMAIN root.tables :
              HasDoltPrefix(tn) => MappedByName(tn)

\* dolt_docs in the parent with three columns and in root with two: the entry
\* holds the tags of root's schema only
C7_Witness ==
    /\ BuildReturned /\ pc = "validate"
    /\ HasTable(root, DocTableName) /\ HasTable(parentRoot, DocTableName)
    /\ Len(parentRoot.tables[DocTableName].sch) = 3
    /\ Len(root.tables[DocTableName].sch) = 2
    /\ DOMAIN tagMapping[DocTableName] = {1, 2}
    /\ tagMapping[DocTableName][1] = SystemTag(DocTableName, "doc_name")

\* C8: a column of a system table of root whose name the static table lacks is
\* mapped to 0, and the replay with such a mapping ends in an error: it
\* returns no root, and the root it builds never holds the table with a
\* column of tag 0.
C8_ZeroMappingReported ==
    BuildReturned =>
        \A tn \in DOMAIN root.tables :
            (HasDoltPrefix(tn) /\ UnknownSystemCols(tn, root.tables[tn].sch) # {}) =>
                /\ tn \in DOMAIN tagMapping /\ 0 \in Range(tagMapping[tn])
                /\ ~ReplayReturned
                /\ (pc = "replay" /\ HasTable(newRoot, tn)) =>
                      0 \notin SchTags(newRoot.tables[tn].sch)

\* C9: the pass of the replay loop over a table that root lacks removes the
\* table from the root being built when that root holds it, and otherwise
\* fails with an error naming the table; the root the replay returns holds no
\* table that rebasedParentRoot holds and root lacks.
C9_DeletedTableRemoved ==
    [][/\ (pc = "replay" /\ todo # <<>> /\ ~HasTable(root, Head(todo))) =>
            IF HasTable(newRoot, Head(todo))
              THEN pc' = "replay" /\ ~HasTable(newRoot', Head(todo))
              ELSE pc' = "error" /\ err'.table = Head(todo)
       /\ (pc = "replay" /\ pc' = "delete") =>
            \A tn \in DOMAIN rebasedParentRoot.tables \ DOMAIN root.tables :
                ~HasTable(newRoot', tn)]_vars

\* T deleted by the commit, next to a table that stays
C9_Witness ==
    /\ ReplayReturned /\ pc = "done"
    /\ ~HasTable(root, "T") /\ HasTable(rebasedParentRoot, "T")
    /\ ~HasTable(newRoot, "T") /\ DOMAIN newRoot.tables # {}

\* C10: in the root the replay returns, every table of root that needs no
\* rebasing is the table of root, schema and rows.
C10_UnchangedTableCopied ==
    ReplayReturned =>
        \A tn \in DOMAIN root.tables :
            ~TableNeedsRebasing(tagMapping, tn, root.tables[tn].sch) =>
                /\ HasTable(newRoot, tn)
                /\ newRoot.tables[tn] = root.tables[tn]

\* the tables of root that rebasedParentRoot holds too
ReplayedOverParent == DOMAIN root.tables \cap DOMAIN rebasedParentRoot.tables

\* the tags of the columns of the rebased parent's table that the replayed
\* table has no column for
DroppedTags(tn) ==
    SchTags(rebasedParentRoot.tables[tn].sch) \ SchTags(newRoot.tables[tn].sch)

\* the tagged values restricted to the tags
Restrict(tv, tags) == [t \in (DOMAIN tv) \cap tags |-> tv[t]]

\* C11: when no store operation fails, no row of a replayed table holds a
\* key field or a value field under the tag of a column dropped since the
\* rebased parent; and a row of the rebased parent that no diff touches (the
\* rows of the commit are the rows of its parent) and whose key tags are
\* primary-key tags of the new schema is in the replayed table, its value
\* being the old value restricted to the non-key tags of the new schema.
C11_DroppedColumnPruned ==
    (ReplayReturned /\ fault = "none") =>
        \A tn \in ReplayedOverParent :
            LET new == newRoot.tables[tn]
                old == rebasedParentRoot.tables[tn]
            IN /\ \A k \in DOMAIN new.rows :
                    (TupleTags(k) \cup TupleTags(new.rows[k])) \cap DroppedTags(tn) = {}
               /\ (HasTable(parentRoot, tn) /\ parentRoot.tables[tn].rows = root.tables[tn].rows) =>
                    \A k \in DOMAIN old.rows :
                        TupleTags(k) \subseteq SchTags(GetPKCols(new.sch)) =>
                            /\ k \in DOMAIN new.rows
                            /\ ParseTaggedValues(new.rows[k]) =
                                  Restrict(ParseTaggedValues(old.rows[k]),
                                           SchTags(GetNonPKCols(new.sch)))

\* the column b is dropped and the rows of the commit still hold its values:
\* the rows of the rebased parent stay, without their values of b
C11_Witness ==
    /\ ReplayReturned /\ pc = "done" /\ fault = "none"
    /\ HasTable(root, "T") /\ HasTable(parentRoot, "T") /\ HasTable(rebasedParentRoot, "T")
    /\ parentRoot.tables["T"].rows = root.tables["T"].rows
    /\ DroppedTags("T") = {4}
    /\ <<<<1, 1>>>> \in DOMAIN rebasedParentRoot.tables["T"].rows
    /\ 4 \in TupleTags(rebasedParentRoot.tables["T"].rows[<<<<1, 1>>>>])
    /\ DOMAIN newRoot.tables["T"].rows = {<<<<1, 1>>>>, <<<<1, 2>>>>}
    /\ newRoot.tables["T"].rows[<<<<1, 1>>>>] = <<>>

\* the primary key of the table differs between the rebased parent and the
\* replayed table
KeyChanged(tn) ==
    SchTags(GetPKCols(rebasedParentRoot.tables[tn].sch)) # SchTags(GetPKCols(newRoot.tables[tn].sch))

\* C12: when no store operation fails and the primary key of a table changes
\* between the rebased parent and the commit, the replayed table holds no row
\* under a key of the rebased parent's rows.
C12_NoRowUnderOldKey ==
    (ReplayReturned /\ fault = "none") =>
        \A tn \in ReplayedOverParent :
            KeyChanged(tn) =>
                DOMAIN newRoot.tables[tn].rows \cap DOMAIN rebasedParentRoot.tables[tn].rows = {}

\* the replay of the table is a round trip: one schema in the three roots, the
\* rows of the rebased parent are the rows of the parent, the mapping of the
\* table is the identity, and no store operation fails
RoundTripInput(tn) ==
    /\ fault = "none"
    /\ HasTable(root, tn) /\ HasTable(parentRoot, tn) /\ HasTable(rebasedParentRoot, tn)
    /\ parentRoot.tables[tn].sch = root.tables[tn].sch
    /\ rebasedParentRoot.tables[tn] = parentRoot.tables[tn]
    /\ \A t \in DOMAIN TableMapping(tagMapping, tn) : tagMapping[tn][t] = t

\* the replay that returns gives the table the rows of the commit
RoundTripReturnsRows(tn) ==
    ReplayReturned => newRoot.tables[tn].rows = root.tables[tn].rows

\* C13: the replay of a round-trip table always comes to return the rows of
\* the commit: it does not stop in a panic at the table, and when it returns
\* the table holds exactly those rows.
C13_RowDiffRoundTrip ==
    \A tn \in DOMAIN root.tables :
        RoundTripInput(tn) =>
            /\ RoundTripReturnsRows(tn)
            /\ ~(pc = "panic" /\ todo # <<>> /\ Head(todo) = tn)

\* the diffs between the rows of the commit's table and its parent's
TableDiffs(tn) == Range(Diffs(RowDataOrEmpty(parentRoot, tn), root.tables[tn].rows))

\* the key and new value of a diff of the table under the new tags
Remapped(tn, d) ==
    modifyDifferenceTag(d, newRoot.tables[tn].sch, TableMapping(tagMapping, tn))

\* the rows of the rebased parent that the diffs of the table are applied to
PrunedParentRows(tn) ==
    dropValsForDeletedColumns(RowDataOrEmpty(rebasedParentRoot, tn), newRoot.tables[tn].sch,
                              SchemaOrNil(rebasedParentRoot, tn))

\* no other diff of the table has the remapped key of d
AloneAtKey(tn, d) ==
    \A d2 \in TableDiffs(tn) \ {d} :
        \A r \in Remapped(tn, d), r2 \in Remapped(tn, d2) : r.key # r2.key

\* C14: in a replay that returns without a store failure, for every table of
\* the commit: the remapped key of an Added or Modified diff holds the
\* remapped new value, the remapped key of a Removed diff is absent (for the
\* diffs that do not share their remapped key with another diff), every
\* pruned row of the rebased parent whose key is the remapped key of no diff
\* is there unchanged, and there is no other row.
C14_DiffsAppliedAtRemappedKeys ==
    (ReplayReturned /\ fault = "none") =>
        \A tn \in DOMAIN root.tables :
            LET new == newRoot.tables[tn].rows
                pruned == PrunedParentRows(tn)
                touched == UNION {{r.key : r \in Remapped(tn, d)} : d \in TableDiffs(tn)}
            IN /\ \A d \in TableDiffs(tn) : AloneAtKey(tn, d) =>
                    \E r \in Remapped(tn, d) :
                        IF d.ChangeType = "Removed"
                            THEN r.key \notin DOMAIN new
                            ELSE r.key \in DOMAIN new /\ r.val = {new[r.key]}
               /\ \A k \in (DOMAIN pruned) \ touched : k \in DOMAIN new /\ new[k] = pruned[k]
               /\ DOMAIN new \subseteq (DOMAIN pruned) \cup touched

\* a row modified under a changed tag next to a row of the rebased parent
\* that no diff touches
C14_Witness ==
    /\ ReplayReturned /\ fault = "none" /\ pc = "done"
    /\ HasTable(root, "T") /\ HasTable(rebasedParentRoot, "T")
    /\ "T" \in DOMAIN tagMapping /\ 2 \in DOMAIN tagMapping["T"] /\ tagMapping["T"][2] = 4
    /\ \E d \in TableDiffs("T") :
          /\ d.ChangeType = "Modified"
          /\ \E r \in Remapped("T", d) : r.key \in DOMAIN newRoot.tables["T"].rows
    /\ \E k \in DOMAIN PrunedParentRows("T") :
          /\ k \in DOMAIN newRoot.tables["T"].rows
          /\ \A d \in TableDiffs("T") : d.KeyValue # k

\* the new tag of a tag of the table: its entry in the mapping, or the tag
NewTagOf(tn, t) ==
    IF t \in DOMAIN TableMapping(tagMapping, tn) THEN tagMapping[tn][t] ELSE t

\* the tagged values of a tuple under the new tags, each value kept
Retagged(tn, tpl) ==
    LET tv == ParseTaggedValues(tpl)
    IN [nt \in {NewTagOf(tn, t) : t \in DOMAIN tv} |->
            tv[CHOOSE t \in DOMAIN tv : NewTagOf(tn, t) = nt]]

\* the row of the commit's table at the key conforms to the table's schema
Conforms(tn, k) ==
    /\ TupleTags(k) = SchTags(GetPKCols(root.tables[tn].sch))
    /\ TupleTags(root.tables[tn].rows[k]) \subseteq SchTags(GetNonPKCols(root.tables[tn].sch))

\* C15: in a replay that returns without a store failure, every row of the
\* commit that differs from the parent's and conforms to the schema (and
\* whose diff is alone at its remapped key) is in the replayed table with
\* every mapped tag of its key and value replaced by the new tag, every tag
\* without an entry kept as it is, and every value unchanged.
C15_UnmappedTagsPassThrough ==
    (ReplayReturned /\ fault = "none") =>
        \A tn \in DOMAIN root.tables : \A d \in TableDiffs(tn) :
            (d.ChangeType # "Removed" /\ AloneAtKey(tn, d) /\ Conforms(tn, d.KeyValue)) =>
                \E k2 \in DOMAIN newRoot.tables[tn].rows :
                    /\ ParseTaggedValues(k2) = Retagged(tn, d.KeyValue)
                    /\ ParseTaggedValues(newRoot.tables[tn].rows[k2]) =
                          Retagged(tn, root.tables[tn].rows[d.KeyValue])

\* the mapping of T has an entry for the key tag only: the value of the
\* changed row stays under tag 2
C15_Witness ==
    /\ ReplayReturned /\ fault = "none" /\ pc = "done"
    /\ HasTable(root, "T") /\ "T" \in DOMAIN tagMapping
    /\ DOMAIN tagMapping["T"] = {1} /\ tagMapping["T"][1] = 4
    /\ \E d \in TableDiffs("T") : d.ChangeType = "Modified" /\ d.KeyValue = <<<<1, 1>>>>
    /\ <<<<4, 1>>>> \in DOMAIN newRoot.tables["T"].rows
    /\ newRoot.tables["T"].rows[<<<<4, 1>>>>] = root.tables["T"].rows[<<<<1, 1>>>>]
    /\ TupleTags(newRoot.tables["T"].rows[<<<<4, 1>>>>]) = {2}

C17_ReadErrorAborts ==
    (fault = "diff read" /\ DOMAIN root.tables # {}) => ~ReplayReturned

\* C18: when a diff of a table of the commit cannot be remapped, the replay
\* of the commit does not return a root.
C18_RemapErrorFails ==
    (fault = "remap" /\ \E tn \in DOMAIN root.tables : TableDiffs(tn) # {}) => ~ReplayReturned

\* the replay of the table makes the store call that fails in this run
FailingCallMade(tn) ==
    \/ fault \in {"PutTable", "RebaseTag", "parent GetTable", "rebased parent GetTable"}
    \/ /\ fault = "prune Map"
       /\ HasTable(rebasedParentRoot, tn)
       /\ ~SchemasAreEqual(RebaseSchemaCols(root.tables[tn].sch, TableMapping(tagMapping, tn)),
                           rebasedParentRoot.tables[tn].sch)

\* C19: when a store call of the replay of a table of the commit fails (the
\* put of a table, the tag rebase of the SuperSchema, the lookup of the table
\* in parentRoot or in rebasedParentRoot, the materialization of the pruned
\* rows), the replay of the commit does not return a root.
C19_StoreFailureFails ==
    (\E tn \in DOMAIN root.tables : FailingCallMade(tn)) => ~ReplayReturned

\* C20: a step changes the branches only after rebase has returned a commit
\* for the head without an error, and a step that ends the operation with an
\* error, from the validation or from rebase, leaves the branch at the
\* original head.
C20_BranchesAfterRebase ==
    [][/\ branches' # branches =>
            /\ pc \in {"delete", "create"}
            /\ rebasedCommit \in {"rebased", "head"}
            /\ err = NoErr
       /\ pc' \in {"error", "panic"} => branches' = [b \in {"master"} |-> "head"]]_vars

\* the branch deleted and made anew at the commit of the replayed root
C20_Witness ==
    /\ pc = "done" /\ err = NoErr
    /\ branches = [b \in {"master"} |-> "rebased"]
    /\ newRoot # rebasedParentRoot

\* ================================================ rebase over the history
\* MigrateUniqueTags and TagRebaseForRef over a commit graph: the heads are
\* resolved, rebase walks the graph from the heads, and the branches are
\* swapped to the commits it returns.
BranchNames == {"feature", "master"}

\* commit -> its parents: a line, two branches off c1, and a merge of two lines
Graphs ==
    {("c0" :> <<>>) @@ ("c1" :> <<"c0">>) @@ ("c2" :> <<"c1">>),
     ("c0" :> <<>>) @@ ("c1" :> <<"c0">>) @@ ("c2" :> <<"c1">>) @@ ("c3" :> <<"c1">>),
     ("c0" :> <<>>) @@ ("c1" :> <<"c0">>) @@ ("c2" :> <<"c0">>) @@ ("c3" :> <<"c1", "c2">>)}

\* a commit of the original history, and the commit a replay of cm makes on
\* the rebased parents; a commit is its content
Orig(cm) == [of |-> cm, onto |-> <<>>, replayed |-> FALSE]
Replayed(cm, onto) == [of |-> cm, onto |-> onto, replayed |-> TRUE]

\* GetBranches: the branches of the store, in order
GetBranches(hs) == SortedNames(<<"feature", "master">>, DOMAIN hs)

NoFault == [op |-> "none", at |-> ""]

\* the calls that can fail in a run over the graph g for the branches bs
HistoryFaults(g, bs) ==
    {NoFault, [op |-> "UpdateWorkingRoot", at |-> ""]}
    \cup {[op |-> "replay", at |-> cm] : cm \in DOMAIN g}
    \cup {[op |-> o, at |-> b] : o \in {"DeleteBranch", "NewBranchAtCommit"}, b \in bs}

InitHistory ==
    /\ ReplayIdle /\ DifferIdle /\ CpIdle /\ PrivIdle
    /\ parents \in Graphs
    /\ \E bs \in SUBSET BranchNames : bs # {} /\ heads \in [bs -> DOMAIN parents]
    /\ useCase \in {"migrate", "tagrebase"}
    /\ IF useCase = "migrate"
         THEN \* every branch, and entireHistory is true of every commit
              /\ dRefs = GetBranches(heads)
              /\ needsRebase = DOMAIN parents
         ELSE \* one branch, and the predicate is false of a commit without parents
              /\ \E b \in DOMAIN heads : dRefs = <<b>>
              /\ needsRebase \in SUBSET {cm \in DOMAIN parents : parents[cm] # <<>>}
    /\ storeFault \in HistoryFaults(parents, Range(dRefs))
    /\ refs = [b \in DOMAIN heads |-> Orig(heads[b])]
    /\ visiting = <<>> /\ visited = <<>> /\ newCommits = <<>>
    /\ replayed = [cm \in DOMAIN parents |-> 0]
    /\ idx = 1
    /\ hpc = "rebase"

\* a memo table that is never hit
IsVisitedNever(memo, cm) == FALSE

\* the memo table of rebase holds the rebased commit of cm
IsVisited(memo, cm) == cm \in DOMAIN memo

\* a commit is terminal in the traversal when the predicate is false for it or
\* when it has no parents
Terminal(cm) == cm \notin needsRebase \/ parents[cm] = <<>>

\* the rebase of cm returns r to its caller: to the rebase of the child that
\* waits for it, or to the list of the new heads
ReturnRebased(cm, r) ==
    /\ visited' = MapSet(visited, cm, r)
    /\ IF Len(visiting) = 1
         THEN /\ visiting' = <<>>
              /\ newCommits' = Append(newCommits, r)
         ELSE /\ visiting' = <<[visiting[2] EXCEPT !.onto = Append(@, r)]>>
                             \o SubSeq(visiting, 3, Len(visiting))
              /\ UNCHANGED newCommits

historyInputs == <<useCase, parents, needsRebase, heads, dRefs, storeFault>>
notHistory == <<replayVars, differVars, cpVars, privVars>>

\* rebase turns to the next head
RebaseHead ==
    /\ hpc = "rebase" /\ visiting = <<>> /\ Len(newCommits) < Len(dRefs)
    /\ LET cm == heads[dRefs[Len(newCommits) + 1]] IN
        IF IsVisited(visited, cm)
          THEN newCommits' = Append(newCommits, visited[cm]) /\ UNCHANGED visiting
          ELSE visiting' = <<[cm |-> cm, onto |-> <<>>]>> /\ UNCHANGED newCommits
    /\ UNCHANGED <<notHistory, historyInputs, refs, visited, replayed, idx, hpc>>

\* a terminal commit is its own rebased commit
VisitTerminal ==
    /\ hpc = "rebase" /\ visiting # <<>>
    /\ Terminal(Head(visiting).cm)
    /\ ReturnRebased(Head(visiting).cm, Orig(Head(visiting).cm))
    /\ UNCHANGED <<notHistory, historyInputs, refs, replayed, idx, hpc>>

\* the next parent of the commit is rebased first, unless it already was
VisitParent ==
    /\ hpc = "rebase" /\ visiting # <<>>
    /\ LET top == Head(visiting) IN
        /\ ~Terminal(top.cm)
        /\ Len(top.onto) < Len(parents[top.cm])
        /\ LET p == parents[top.cm][Len(top.onto) + 1] IN
            IF IsVisited(visited, p)
              THEN visiting' = [visiting EXCEPT ![1].onto = Append(@, visited[p])]
              ELSE visiting' = <<[cm |-> p, onto |-> <<>>]>> \o visiting
    /\ UNCHANGED <<notHistory, historyInputs, refs, visited, replayed, newCommits, idx, hpc>>

\* every parent is rebased: the commit is replayed on the rebased parents, and
\* an error of the replay is the error of rebase and of its caller
ReplayCommit ==
    /\ hpc = "rebase" /\ visiting # <<>>
    /\ LET top == Head(visiting) IN
        /\ ~Terminal(top.cm)
        /\ Len(top.onto) = Len(parents[top.cm])
        /\ IF storeFault = [op |-> "replay", at |-> top.cm]
             THEN /\ hpc' = "error"
                  /\ UNCHANGED <<visiting, visited, replayed, newCommits>>
             ELSE /\ ReturnRebased(top.cm, Replayed(top.cm, top.onto))
                  /\ replayed' = [replayed EXCEPT ![top.cm] = @ + 1]
                  /\ UNCHANGED hpc
    /\ UNCHANGED <<notHistory, historyInputs, refs, idx>>

\* rebase returns the new heads
RebaseReturn ==
    /\ hpc = "rebase" /\ visiting = <<>> /\ Len(newCommits) = Len(dRefs)
    /\ hpc' = "delete"
    /\ UNCHANGED <<notHistory, historyInputs, refs, visiting, visited, replayed, newCommits, idx>>

\* ddb.DeleteBranch(ctx, dRef); its error is returned at once
DeleteBranchOfRef ==
    /\ hpc = "delete"
    /\ IF storeFault = [op |-> "DeleteBranch", at |-> dRefs[idx]]
         THEN hpc' = "error" /\ UNCHANGED refs
         ELSE hpc' = "create" /\ refs' = MapRemove(refs, dRefs[idx])
    /\ UNCHANGED <<notHistory, historyInputs, visiting, visited, replayed, newCommits, idx>>

\* ddb.NewBranchAtCommit(ctx, dRef, newCommits[idx]); its error is returned at
\* once; then the loop turns to the next branch
NewBranchAtNewCommit ==
    /\ hpc = "create"
    /\ IF storeFault = [op |-> "NewBranchAtCommit", at |-> dRefs[idx]]
         THEN hpc' = "error" /\ UNCHANGED <<refs, idx>>
         ELSE /\ refs' = MapSet(refs, dRefs[idx], newCommits[idx])
              /\ IF idx < Len(dRefs)
                   THEN idx' = idx + 1 /\ hpc' = "delete"
                   ELSE hpc' = "finish" /\ UNCHANGED idx
    /\ UNCHANGED <<notHistory, historyInputs, visiting, visited, replayed, newCommits>>

\* after the loop MigrateUniqueTags updates the staged and the working root
\* and the docs, and returns the error of any of these; TagRebaseForRef
\* returns the rebased commit
UpdateRoots ==
    /\ hpc = "finish"
    /\ hpc' = IF useCase = "migrate" /\ storeFault.op = "UpdateWorkingRoot"
                THEN "error" ELSE "done"
    /\ UNCHANGED <<notHistory, historyInputs, refs, visiting, visited, replayed, newCommits, idx>>

NextHistory ==
    \/ RebaseHead
    \/ VisitTerminal
    \/ VisitParent
    \/ ReplayCommit
    \/ RebaseReturn
    \/ DeleteBranchOfRef
    \/ NewBranchAtNewCommit
    \/ UpdateRoots

SpecHistory == InitHistory /\ [][NextHistory]_vars

\* the branch refs as they were before the call
OriginalRefs == [b \in DOMAIN heads |-> Orig(heads[b])]

\* C21: whenever MigrateUniqueTags or TagRebaseForRef returns an error, every
\* branch ref that existed before the call still exists and points at its
\* original head, also when the error comes from DeleteBranch or from
\* NewBranchAtCommit within the swap.
C21_ErrorLeavesRefs == hpc = "error" => refs = OriginalRefs

\* the commits of the rebased history of r that come from the original commit cm
RECURSIVE Within(_, _)
Within(r, cm) ==
    (IF r.of = cm THEN {r} ELSE {})
    \cup UNION {Within(r.onto[i], cm) : i \in DOMAIN r.onto}

\* C22: during one rebase every original commit is replayed at most once,
\* also when several heads or several paths reach it, and the histories of
\* the new heads hold one rebased commit for each original commit: two
\* branches with a common ancestor share its rebased commit.
C22_ReplayedAtMostOnce ==
    /\ \A cm \in DOMAIN replayed : replayed[cm] <= 1
    /\ \A cm \in DOMAIN replayed :
          Cardinality(UNION {Within(newCommits[i], cm) : i \in DOMAIN newCommits}) <= 1

\* the migration of feature at c2 and master at c3, both children of c1: c1
\* was replayed once, and the two new heads are different commits on the same
\* rebased c1
C22_Witness ==
    /\ useCase = "migrate" /\ hpc = "done"
    /\ DOMAIN heads = {"feature", "master"}
    /\ heads["feature"] = "c2" /\ heads["master"] = "c3"
    /\ parents["c2"] = <<"c1">> /\ parents["c3"] = <<"c1">>
    /\ replayed["c1"] = 1
    /\ Len(newCommits) = 2
    /\ newCommits[1] # newCommits[2]
    /\ newCommits[1].onto = newCommits[2].onto
    /\ newCommits[1].onto[1].replayed
    /\ refs = [b \in {"feature", "master"} |-> IF b = "feature" THEN newCommits[1] ELSE newCommits[2]]

\* some table of the commit's root has an entry in the mapping with an old tag
\* that is in the table's SuperSchema
MappingTouches(crt, tm) ==
    \E tn \in (DOMAIN crt.tables) \cap (DOMAIN tm) :
        (DOMAIN tm[tn]) \cap GetSuperSchema(crt, tn) # {}

\* C23: the needs-rebase predicate of TagRebaseForCommits is true of a commit
\* exactly when the commit has at least one parent and the mapping touches a
\* tag of the SuperSchema of one of its tables; when it is false the commit is
\* not replayed and its rebased commit is the commit itself.
C23_NeedsRebaseExactly ==
    [][pc = "nerf" =>
        /\ (pc' = "replay") <=> (numParents > 0 /\ MappingTouches(root, tagMapping))
        /\ pc' # "replay" => (pc' = "delete" /\ rebasedCommit' = "head")]_vars

\* a commit with a parent and a table T is kept as it is under a mapping with
\* an entry for T that names none of T's tags
C23_Witness ==
    /\ mode = "tagrebase" /\ numParents = 1
    /\ rebasedCommit = "head" /\ pc = "done"
    /\ branches = [b \in {"master"} |-> "head"]
    /\ "T" \in DOMAIN root.tables
    /\ "T" \in DOMAIN tagMapping
    /\ ~MappingTouches(root, tagMapping)

\* ============================================================ dolt table cp
\* the table names and the commit names a caller passes to the command
CpTableNames == {"t", "u", "dolt_docs"}
CpCommitNames == {"HEAD", "nosuch"}

\* the roots of the command: table name -> table, a table standing for its
\* schema and rows
CpTables == {1, 2}
CpRoots == UNION {[S -> CpTables] : S \in SUBSET {"t", "u"}}

\* the argument lists: oldtable newtable, commit oldtable newtable, and lists
\* that are too short or too long
CpArgLists ==
    {<<old, new>> : old \in CpTableNames, new \in CpTableNames}
    \cup {<<cm, old, new>> : cm \in CpCommitNames, old \in {"t", "u"}, new \in CpTableNames}
    \cup {<<"t">>, <<"HEAD", "t", "u", "u">>}

\* ValidateTableNameForCreate: a name with the reserved prefix is refused
ValidateTableNameForCreate(name) == ~HasDoltPrefix(name)

\* ResolveCommitWithVErr: the commit of the name, when there is one
ResolvesCommit(name) == name = "HEAD"

\* CpCmd.Exec that overwrites the destination without the force flag
CpCmdExecAlwaysForce(w, cr, args, force, storeFails) ==
    LET n == Len(args) IN
    IF n < 2 \/ n > 3 THEN [working |-> w, exit |-> 1]
    ELSE IF n = 3 /\ ~ResolvesCommit(args[1]) THEN [working |-> w, exit |-> 1]
    ELSE LET src == IF n = 3 THEN cr ELSE w IN
         IF ~ValidateTableNameForCreate(args[n]) THEN [working |-> w, exit |-> 1]
         ELSE IF args[n - 1] \notin DOMAIN src THEN [working |-> w, exit |-> 1]
         ELSE IF storeFails THEN [working |-> w, exit |-> 1]
         ELSE [working |-> MapSet(w, args[n], src[args[n - 1]]), exit |-> 0]

\* CpCmd.Exec on the working root w and the root cr of the commit HEAD: the
\* working root it leaves and its exit code. storeFails: PutTable or
\* UpdateWorkingWithVErr returns an error.
CpCmdExec(w, cr, args, force, storeFails) ==
    LET n == Len(args) IN
    IF n < 2 \/ n > 3 THEN [working |-> w, exit |-> 1]
    ELSE IF n = 3 /\ ~ResolvesCommit(args[1]) THEN [working |-> w, exit |-> 1]
    ELSE LET src == IF n = 3 THEN cr ELSE w
             old == args[n - 1]
             new == args[n]
         IN IF ~ValidateTableNameForCreate(new) THEN [working |-> w, exit |-> 1]
            ELSE IF old \notin DOMAIN src THEN [working |-> w, exit |-> 1]
            ELSE IF ~force /\ new \in DOMAIN w THEN [working |-> w, exit |-> 1]
            ELSE IF storeFails THEN [working |-> w, exit |-> 1]
            ELSE [working |-> MapSet(w, new, src[old]), exit |-> 0]

InitCp ==
    /\ ReplayIdle /\ HistoryIdle /\ DifferIdle /\ PrivIdle
    /\ working \in CpRoots
    /\ commitRoot \in CpRoots
    /\ cpCall = [args |-> <<>>, force |-> FALSE, storeFails |-> FALSE]
    /\ cpExit = 0

\* one run of the command
Exec ==
    \E args \in CpArgLists, force \in BOOLEAN, storeFails \in BOOLEAN :
        LET res == CpCmdExec(working, commitRoot, args, force, storeFails) IN
        /\ cpCall' = [args |-> args, force |-> force, storeFails |-> storeFails]
        /\ working' = res.working
        /\ cpExit' = res.exit
        /\ UNCHANGED <<commitRoot, replayVars, historyVars, differVars, privVars>>

NextCp == Exec

SpecCp == InitCp /\ [][NextCp]_vars

\* the arguments of a run resolve: two or three of them, the commit exists,
\* the source table exists in the root it is taken from, the destination has
\* a name a table can be created under, and the store takes the write
CpResolves(call, w, cr) ==
    LET n == Len(call.args) IN
    /\ n \in {2, 3}
    /\ n = 3 => call.args[1] = "HEAD"
    /\ call.args[n - 1] \in DOMAIN (IF n = 3 THEN cr ELSE w)
    /\ ~HasDoltPrefix(call.args[n])
    /\ ~call.storeFails

\* C24: dolt table cp fails with a non-zero exit code and leaves the working
\* root as it is when the destination exists in the working root and the
\* force flag is not given; with the force flag, or when the destination does
\* not exist, a run whose arguments resolve exits with 0, the destination is
\* the source table, taken from the commit when one is named and from the
\* working root otherwise, and every other table of the working root is as
\* it was.
C24_CpDestination ==
    [][LET call == cpCall'
           n == Len(call.args)
       IN n \in {2, 3} =>
            LET new == call.args[n]
                old == call.args[n - 1]
                src == IF n = 3 THEN commitRoot ELSE working
            IN /\ (new \in DOMAIN working /\ ~call.force) =>
                      (cpExit' # 0 /\ working' = working)
               /\ ((call.force \/ new \notin DOMAIN working)
                       /\ CpResolves(call, working, commitRoot)) =>
                      /\ cpExit' = 0
                      /\ DOMAIN working' = DOMAIN working \cup {new}
                      /\ working'[new] = src[old]
                      /\ \A tn \in DOMAIN working \ {new} : working'[tn] = working[tn]]_vars

\* table u of the working root overwritten, with the force flag, by table t of
\* the commit, which differs from table t of the working root
C24_Witness ==
    /\ cpCall = [args |-> <<"HEAD", "t", "u">>, force |-> TRUE, storeFails |-> FALSE]
    /\ cpExit = 0
    /\ DOMAIN working = {"t", "u"}
    /\ "t" \in DOMAIN commitRoot
    /\ working["u"] = commitRoot["t"]
    /\ working["t"] # commitRoot["t"]

\* ==================================================== mysql_file_handler
\* the goroutines that call the package, the paths and the file contents
Procs == {1, 2}
NoOne == 0
FilePaths == {"p1", "p2"}
\* file contents: <<1>> holds privileges as JSON, <<2>> holds bytes that are
\* no JSON
FileData == {<<>>, <<1>>, <<2>>}
NoFile == <<0>>

NoAccess == [proc |-> NoOne, obj |-> "none", write |-> FALSE, locked |-> TRUE]
NoSave == [path |-> "", data |-> <<>>]
NoResult == [data |-> <<>>, err |-> FALSE]

\* a goroutine outside the package, with the result of its last call
IdleCall == [op |-> "none", arg |-> <<>>, pc |-> "idle", ret |-> NoResult]

\* the calls a goroutine can make
NewCalls ==
    {[op |-> "SetPrivilegeFilePath", arg |-> fp, pc |-> "start", ret |-> NoResult] :
        fp \in FilePaths \cup {""}}
    \cup {[op |-> o, arg |-> <<>>, pc |-> "start", ret |-> NoResult] :
            o \in {"LoadPrivileges", "LoadData"}}
    \cup {[op |-> "SaveData", arg |-> d, pc |-> "lock", ret |-> NoResult] : d \in FileData}

\* ioutil.ReadFile: the contents, and nothing for a file that does not exist
ReadFile(fs, path) == IF fs[path] = NoFile THEN <<>> ELSE fs[path]

\* ioutil.WriteFile that appends to the file
WriteFileAppend(fs, path, data) ==
    [fs EXCEPT ![path] = IF @ = NoFile THEN data ELSE @ \o data]

\* ioutil.WriteFile: the file is created or truncated, and holds the data
WriteFile(fs, path, data) == [fs EXCEPT ![path] = data]

\* json.Unmarshal fails on bytes that are no JSON
UnmarshalFails(contents) == contents = <<2>>

InitPriv ==
    /\ ReplayIdle /\ HistoryIdle /\ DifferIdle /\ CpIdle
    /\ privsFilePath = ""
    /\ fileMutex = NoOne
    /\ files \in [FilePaths -> {NoFile, <<1>>}]
    /\ calls = [p \in Procs |-> IdleCall]
    /\ lastAccess = NoAccess
    /\ lastSave = NoSave

notPriv == <<replayVars, historyVars, differVars, cpVars>>

\* the call of p returns r; its deferred Unlock releases the mutex it holds
Returns(p, r) ==
    /\ calls' = [calls EXCEPT ![p].pc = "idle", ![p].ret = r]
    /\ fileMutex' = IF fileMutex = p THEN NoOne ELSE fileMutex

\* p reads or writes the path variable or a file
Access(p, obj, write) ==
    lastAccess' = [proc |-> p, obj |-> obj, write |-> write, locked |-> fileMutex = p]

\* a goroutine calls one of the four functions
Call(p) ==
    /\ calls[p].pc = "idle"
    /\ \E c \in NewCalls : calls' = [calls EXCEPT ![p] = c]
    /\ UNCHANGED <<notPriv, privsFilePath, fileMutex, files, lastAccess, lastSave>>

\* SetPrivilegeFilePath: do nothing for empty file path
SetPathCheck(p) ==
    /\ calls[p].op = "SetPrivilegeFilePath" /\ calls[p].pc = "start"
    /\ IF calls[p].arg = ""
         THEN Returns(p, NoResult)
         ELSE calls' = [calls EXCEPT ![p].pc = "lock"] /\ UNCHANGED fileMutex
    /\ UNCHANGED <<notPriv, privsFilePath, files, lastAccess, lastSave>>

\* LoadPrivileges and LoadData: `if len(privsFilePath) == 0`, before the lock
LoadCheck(p) ==
    /\ calls[p].op \in {"LoadPrivileges", "LoadData"} /\ calls[p].pc = "start"
    /\ Access(p, "path", FALSE)
    /\ IF privsFilePath = ""
         THEN Returns(p, NoResult)
         ELSE calls' = [calls EXCEPT ![p].pc = "lock"] /\ UNCHANGED fileMutex
    /\ UNCHANGED <<notPriv, privsFilePath, files, lastSave>>

\* fileMutex.Lock()
Lock(p) ==
    /\ calls[p].pc = "lock"
    /\ fileMutex = NoOne
    /\ fileMutex' = p
    /\ calls' = [calls EXCEPT ![p].pc = "locked"]
    /\ UNCHANGED <<notPriv, privsFilePath, files, lastAccess, lastSave>>

\* SetPrivilegeFilePath under the lock: the file is created when it does not
\* exist, and the path is set
SetPath(p) ==
    /\ calls[p].op = "SetPrivilegeFilePath" /\ calls[p].pc = "locked"
    /\ files' = IF files[calls[p].arg] = NoFile
                  THEN WriteFile(files, calls[p].arg, <<>>) ELSE files
    /\ privsFilePath' = calls[p].arg
    /\ Access(p, "path", TRUE)
    /\ Returns(p, NoResult)
    /\ UNCHANGED <<notPriv, lastSave>>

\* LoadPrivileges and LoadData under the lock: the file of the path is read;
\* a read error is returned, an empty or missing file gives nil, LoadData
\* returns the bytes and LoadPrivileges what it unmarshals from them
Load(p) ==
    /\ calls[p].op \in {"LoadPrivileges", "LoadData"} /\ calls[p].pc = "locked"
    /\ Access(p, "file", FALSE)
    /\ \E readFails \in BOOLEAN :
        LET buf == ReadFile(files, privsFilePath) IN
        IF readFails THEN Returns(p, [data |-> <<>>, err |-> TRUE])
        ELSE IF buf = <<>> THEN Returns(p, NoResult)
        ELSE IF calls[p].op = "LoadPrivileges" /\ UnmarshalFails(buf)
            THEN Returns(p, [data |-> <<>>, err |-> TRUE])
        ELSE Returns(p, [data |-> buf, err |-> FALSE])
    /\ UNCHANGED <<notPriv, privsFilePath, files, lastSave>>

\* SaveData under the lock: an error when no path is set, else the data is
\* written to the file of the path
SaveData(p) ==
    /\ calls[p].op = "SaveData" /\ calls[p].pc = "locked"
    /\ IF privsFilePath = ""
         THEN /\ Access(p, "path", FALSE)
              /\ Returns(p, [data |-> <<>>, err |-> TRUE])
              /\ UNCHANGED <<files, lastSave>>
         ELSE /\ Access(p, "file", TRUE)
              /\ files' = WriteFile(files, privsFilePath, calls[p].arg)
              /\ lastSave' = [path |-> privsFilePath, data |-> calls[p].arg]
              /\ Returns(p, NoResult)
    /\ UNCHANGED <<notPriv, privsFilePath>>

NextPriv ==
    \/ \E p \in Procs : Call(p)
    \/ \E p \in Procs : SetPathCheck(p)
    \/ \E p \in Procs : LoadCheck(p)
    \/ \E p \in Procs : Lock(p)
    \/ \E p \in Procs : SetPath(p)
    \/ \E p \in Procs : Load(p)
    \/ \E p \in Procs : SaveData(p)

SpecPriv == InitPriv /\ [][NextPriv]_vars

\* the call of p returns in this step
Returned(p) == calls[p].pc # "idle" /\ calls'[p].pc = "idle"

\* C25: while no privilege file path is set, LoadPrivileges and LoadData
\* return empty results and no error, and SaveData returns an error and
\* writes no file; once a path is set, a LoadData that follows a successful
\* SaveData of non-empty data to the file of the path returns exactly the
\* saved bytes, unless the read fails.
C25_PathUnsetThenSet ==
    [][\A p \in Procs : Returned(p) =>
        /\ privsFilePath = "" =>
              /\ calls[p].op \in {"LoadPrivileges", "LoadData"} => calls'[p].ret = NoResult
              /\ calls[p].op = "SaveData" => (calls'[p].ret.err /\ files' = files)
        /\ (/\ calls[p].op = "LoadData"
            /\ lastSave.path = privsFilePath
            /\ lastSave.data # <<>>) =>
              \/ calls'[p].ret.err
              \/ calls'[p].ret = [data |-> lastSave.data, err |-> FALSE]]_vars

\* goroutine 2 was refused a SaveData while no path was set; later the path
\* was set to p2, the bytes <<2>> were saved over it, and the LoadData of
\* goroutine 1 returned them
C25_Witness ==
    /\ calls[2].op = "SaveData" /\ calls[2].pc = "idle"
    /\ calls[2].arg = <<1>> /\ calls[2].ret = [data |-> <<>>, err |-> TRUE]
    /\ calls[1].op = "LoadData" /\ calls[1].pc = "idle"
    /\ calls[1].ret = [data |-> <<2>>, err |-> FALSE]
    /\ privsFilePath = "p2"
    /\ lastSave = [path |-> "p2", data |-> <<2>>]
    /\ files["p1"] = <<1>>

\* ====================================================== replayRowDiffs
\* one call of replayRowDiffs, poll by poll: the call replayCommitWithNewTag
\* makes for table T of the head commit in a run of TagRebaseForRef
DifferTable == "T"
DifferMapping == TableMapping(tagMapping, DifferTable)
DifferSch == RebaseSchemaCols(root.tables[DifferTable].sch, DifferMapping)
DifferRows == root.tables[DifferTable].rows
DifferParentRows == ParentRowsRead(DifferTable)
DifferRebasedParentRows ==
    PrunedRowData(RebasedParentRowsRead(DifferTable), DifferSch, RebasedParentSchRead(DifferTable))

NoPoll == [n |-> 0, diffs |-> <<>>, err |-> FALSE]
NoReturn == [rows |-> EmptyMap, err |-> FALSE]

\* the replay of the head commit has reached the row rebase of table T
InitDiffer ==
    /\ HistoryIdle /\ CpIdle /\ PrivIdle
    /\ InitCallerMapping
    /\ HasTable(root, DifferTable)
    /\ fault \in {"none", "diff read", "remap"}
    /\ tagMapping \in {m \in CallerMappings : validateTagMapping(m) = {NoErr}}
    /\ numParents > 0 /\ tagExistsInHistory(root, tagMapping)
    /\ ~HasTagCollision(DifferSch)
    /\ existingRebasedTags = {}
    /\ todo = UnionTableNames(root, rebasedParentRoot)
    /\ newRoot = rebasedParentRoot
    /\ pc = "replay" /\ err = NoErr /\ rebasedCommit = "none"
    /\ branches = [b \in {"master"} |-> "head"]
    /\ adStatus = "none" /\ adIsDone = FALSE /\ adChan = <<>> /\ polled = NoPoll
    /\ rebasedRowEditor = EmptyMap
    /\ rrPc = "start"
    /\ rrResult = NoReturn

\* a Close at the end of the function, which only the normal return reaches
CloseAtEnd(exit) == IF exit = "return" THEN "closed" ELSE "started"

\* defer ad.Close(): the stream is closed on every way out of the function
DeferredClose(exit) == "closed"

notDiffer == <<replayVars, historyVars, cpVars, privVars>>

\* the row editor over the rebased parent's rows; the differ is made and
\* started on rows and parentRows, and its Close is deferred
StartDiffer ==
    /\ rrPc = "start"
    /\ rebasedRowEditor' = DifferRebasedParentRows
    /\ adStatus' = "started"
    /\ adChan' = Diffs(DifferParentRows, DifferRows)
    /\ rrPc' = "poll"
    /\ UNCHANGED <<notDiffer, adIsDone, polled, rrResult>>

\* ad.GetDiffs(1, time.Second): the next diff when the producer delivers it
\* within the second; no diff when it does not; no diff and IsDone when the
\* producer has finished; and when a read of the rows fails, the error, with
\* the differ done or not
GetDiffs ==
    /\ rrPc = "poll"
    /\ \/ /\ adChan # <<>>
          /\ polled' = [n |-> 1, diffs |-> <<Head(adChan)>>, err |-> FALSE]
          /\ adChan' = Tail(adChan)
          /\ UNCHANGED adIsDone
       \/ /\ polled' = [n |-> 1, diffs |-> <<>>, err |-> FALSE]
          /\ UNCHANGED <<adChan, adIsDone>>
       \/ /\ adChan = <<>> /\ fault # "diff read"
          /\ polled' = [n |-> 1, diffs |-> <<>>, err |-> FALSE]
          /\ adIsDone' = TRUE
          /\ UNCHANGED adChan
       \/ /\ fault = "diff read"
          /\ polled' = [n |-> 1, diffs |-> <<>>, err |-> TRUE]
          /\ adIsDone' \in BOOLEAN
          /\ UNCHANGED adChan
    /\ rrPc' = "body"
    /\ UNCHANGED <<notDiffer, adStatus, rebasedRowEditor, rrResult>>

\* replayRowDiffs leaves through the exit, with its deferred call
Leave(exit, rows, failed) ==
    /\ rrPc' = IF exit = "panic" THEN "panic" ELSE "returned"
    /\ rrResult' = [rows |-> rows, err |-> failed]
    /\ adStatus' = DeferredClose(exit)

\* the body of the loop after the poll
LoopBody ==
    /\ rrPc = "body"
    /\ IF adIsDone
         THEN \* break, and return rebasedRowEditor.Map(ctx)
              Leave("return", rebasedRowEditor, FALSE) /\ UNCHANGED rebasedRowEditor
       ELSE IF polled.err
         THEN Leave("error", EmptyMap, TRUE) /\ UNCHANGED rebasedRowEditor
       ELSE IF Len(polled.diffs) # 1
         THEN Leave("panic", EmptyMap, FALSE) /\ UNCHANGED rebasedRowEditor
       ELSE IF fault = "remap"
         THEN \* modifyDifferenceTag fails: return types.EmptyMap, nil
              Leave("remap", EmptyMap, FALSE) /\ UNCHANGED rebasedRowEditor
       ELSE /\ \E m \in modifyDifferenceTag(polled.diffs[1], DifferSch, DifferMapping) :
                  rebasedRowEditor' = ApplyEdit(rebasedRowEditor, polled.diffs[1], m)
            /\ rrPc' = "poll"
            /\ UNCHANGED <<adStatus, rrResult>>
    /\ UNCHANGED <<notDiffer, adIsDone, adChan, polled>>

NextDiffer ==
    \/ StartDiffer
    \/ GetDiffs
    \/ LoopBody

SpecDiffer == InitDiffer /\ [][NextDiffer]_vars

\* C26: every poll of replayRowDiffs asks for one diff; the panic is raised
\* only when a poll returns more diffs than the one asked for; a poll that
\* times out with no diff while the producer has not finished does not end the
\* replay; and the loop ends only when the differ is done.
C26_PanicOnlyOnExcess ==
    [][/\ rrPc' = "body" => polled'.n = 1
       /\ rrPc' = "panic" => Len(polled.diffs) > polled.n
       /\ (rrPc = "body" /\ polled = [n |-> 1, diffs |-> <<>>, err |-> FALSE] /\ ~adIsDone)
              => rrPc' = "poll"
       /\ (rrPc = "body" /\ rrPc' # "poll") => adIsDone]_vars

\* C27: the diff stream replayRowDiffs started is closed when replayRowDiffs
\* is left, whether it returns the rows, returns the error of a poll, returns
\* after a diff that cannot be remapped, or panics; and it is not closed
\* before.
C27_StreamClosedOnExit ==
    /\ rrPc \in {"returned", "panic"} => adStatus = "closed"
    /\ rrPc \in {"poll", "body"} => adStatus = "started"

\* replayRowDiffs panicked with diffs the producer had yet to deliver, and the
\* stream is closed
C27_Witness ==
    /\ rrPc = "panic"
    /\ adStatus = "closed"
    /\ adChan # <<>>
    /\ ~adIsDone

\* the replay loop has passed the table of root
Rebuilt(tn) ==
    /\ HasTable(root, tn)
    /\ \/ pc = "replay" /\ tn \notin Range(todo)
       \/ ReplayReturned

\* C28: in a table the replay has rebuilt, the rebased schema has the columns
\* of the commit's schema in the same order, each with its name, kind and key
\* membership, and with the mapping's new tag when its tag has an entry and
\* its own tag otherwise; and the SuperSchema stored for the table is the
\* SuperSchema of root with the same replacement of tags.
C28_SchemaRebuilt ==
    \A tn \in TableNames : Rebuilt(tn) =>
        /\ HasTable(newRoot, tn)
        /\ LET sch == root.tables[tn].sch
               rebasedSch == newRoot.tables[tn].sch
           IN /\ Len(rebasedSch) = Len(sch)
              /\ \A i \in DOMAIN sch :
                    /\ rebasedSch[i].name = sch[i].name
                    /\ rebasedSch[i].kind = sch[i].kind
                    /\ rebasedSch[i].pk = sch[i].pk
                    /\ rebasedSch[i].tag = NewTagOf(tn, sch[i].tag)
        /\ GetSuperSchema(newRoot, tn) = {NewTagOf(tn, t) : t \in GetSuperSchema(root, tn)}

\* T with the columns a and b under the tags 1 and 2 was rebuilt under the
\* mapping of 2 to 4, while the loop has yet to pass U
C28_Witness ==
    /\ pc = "replay" /\ todo = <<"U">>
    /\ Rebuilt("T")
    /\ "T" \in DOMAIN tagMapping /\ DOMAIN tagMapping["T"] = {2} /\ tagMapping["T"][2] = 4
    /\ [i \in {1, 2} |-> root.tables["T"].sch[i].tag] = <<1, 2>>
    /\ [i \in {1, 2} |-> newRoot.tables["T"].sch[i].tag] = <<1, 4>>
    /\ [i \in {1, 2} |-> newRoot.tables["T"].sch[i].name] = <<"a", "b">>
    /\ GetSuperSchema(root, "T") = {1, 2}
    /\ GetSuperSchema(newRoot, "T") = {1, 4}

\* C29: whenever replayCommitWithNewTag returns a root, the table names of
\* that root are the table names of root: every table of rebasedParentRoot
\* that root lacks is removed, every table of root is there, and no other.
C29_TableNamesOfRoot ==
    ReplayReturned => DOMAIN newRoot.tables = DOMAIN root.tables

\* the commit created T next to U: the replayed root holds both
C29_Witness ==
    /\ ReplayReturned /\ pc = "done"
    /\ DOMAIN root.tables = {"T", "U"}
    /\ DOMAIN rebasedParentRoot.tables = {"U"}
    /\ DOMAIN newRoot.tables = {"T", "U"}

\* C30: under any interleaving of SetPrivilegeFilePath, LoadPrivileges,
\* LoadData and SaveData, every read and write of the path variable and of a
\* file is made by a goroutine that holds fileMutex.
C30_AccessesUnderMutex == lastAccess.locked

====
